---------------------------- MODULE Spec2Model ----------------------------
(***************************************************************************)
(* A model of the kyverno policy engine: the overlay mutator, the pattern  *)
(* validator, the resource-description matcher, the Mutate and Validate    *)
(* rule loops, the admission pipeline of the webhook server, the           *)
(* ResourceManager of the policy controller and the ConfigData filters.    *)
(*                                                                         *)
(* Strings are sequences of one-character strings, so that the code's      *)
(* byte-level tests (str[0] == '(', path + key + "/") are computed as the  *)
(* code computes them.  A JSON value is a tagged record [t, v]: the tag is *)
(* the Go dynamic type after json.Unmarshal (map[string]interface{},       *)
(* []interface{}, string, float64, nil).                                   *)
(***************************************************************************)
EXTENDS Integers, Sequences, FiniteSets, TLC

(***************************************************************************)
(* Bounds of the model.                                                    *)
(***************************************************************************)
\* the longest policy (number of rules) that is explored
MaxRules == 2

(***************************************************************************)
(* Strings                                                                 *)
(***************************************************************************)
Digits == <<"0", "1", "2", "3", "4", "5", "6", "7", "8", "9">>

IsDigit(c) == \E d \in 1..Len(Digits) : Digits[d] = c

DigitVal(c) == (CHOOSE d \in 1..Len(Digits) : Digits[d] = c) - 1

RECURSIVE Itoa(_)
\* strconv.Itoa for a non-negative number
Itoa(n) ==
    IF n < Len(Digits) THEN <<Digits[n + 1]>>
    ELSE Itoa(n \div Len(Digits)) \o <<Digits[(n % Len(Digits)) + 1]>>

RECURSIVE AtoiAcc(_, _)
AtoiAcc(s, acc) ==
    IF s = <<>> THEN acc
    ELSE AtoiAcc(Tail(s), acc * Len(Digits) + DigitVal(Head(s)))

\* strconv.Atoi restricted to unsigned decimals; -1 stands for the error
Atoi(s) ==
    IF s # <<>> /\ \A i \in 1..Len(s) : IsDigit(s[i]) THEN AtoiAcc(s, 0) ELSE -1

RECURSIVE SplitAcc(_, _, _)
SplitAcc(s, sep, cur) ==
    IF s = <<>> THEN <<cur>>
    ELSE IF Head(s) = sep THEN <<cur>> \o SplitAcc(Tail(s), sep, <<>>)
    ELSE SplitAcc(Tail(s), sep, Append(cur, Head(s)))

\* strings.Split(s, sep) for a one-character separator
Split(s, sep) == SplitAcc(s, sep, <<>>)

\* the orders in which a Go "for k := range m" may visit the key set S
Perms(S) ==
    {o \in [1..Cardinality(S) -> S] : \A i, j \in DOMAIN o : i # j => o[i] # o[j]}

(***************************************************************************)
(* JSON values                                                             *)
(***************************************************************************)
JStr(s) == [t |-> "str", v |-> s]
JNum(n) == [t |-> "num", v |-> n]
JNull == [t |-> "null", v |-> 0]
JMap(f) == [t |-> "map", v |-> f]
JArr(s) == [t |-> "arr", v |-> s]
\* a nil []byte document, or a document that could not be produced
NoDoc == [t |-> "nodoc", v |-> 0]

\* reflect.TypeOf(x) of an unmarshalled JSON value
TypeOf(x) == x.t

EmptyMap == <<>>

\* m[k] = val on a Go map
MapPut(m, k, val) == [x \in (DOMAIN m) \cup {k} |-> IF x = k THEN val ELSE m[x]]

\* delete(m, k)
MapDel(m, k) == [x \in (DOMAIN m) \ {k} |-> m[x]]

\* v, ok := m[k]: the zero value (nil) when the key is missing
MapGet(m, k) == IF k \in DOMAIN m THEN m[k] ELSE JNull

SeqInsert(s, i, val) == SubSeq(s, 1, i) \o <<val>> \o SubSeq(s, i + 1, Len(s))

SeqRemove(s, i) == SubSeq(s, 1, i) \o SubSeq(s, i + 2, Len(s))

SeqSet(s, i, val) == [s EXCEPT ![i + 1] = val]

(***************************************************************************)
(* Anchors                                                                 *)
(***************************************************************************)
isConditionAnchor(str) ==
    IF Len(str) < 2 THEN FALSE
    ELSE str[1] = "(" /\ str[Len(str)] = ")"

isExistanceAnchor_AnySign(str) ==
    IF Len(str) < 3 THEN FALSE
    ELSE str[2] = "(" /\ str[Len(str)] = ")"
isExistanceAnchor(str) ==
    IF Len(str) < 3 THEN FALSE
    ELSE SubSeq(str, 1, 2) = <<"^", "(">> /\ str[Len(str)] = ")"

isAddingAnchor(key) ==
    IF Len(key) < 3 THEN FALSE
    ELSE SubSeq(key, 1, 2) = <<"+", "(">> /\ key[Len(key)] = ")"

removeAnchor(key) ==
    IF isConditionAnchor(key) THEN SubSeq(key, 2, Len(key) - 1)
    ELSE IF isExistanceAnchor(key) \/ isAddingAnchor(key) THEN SubSeq(key, 3, Len(key) - 1)
    ELSE key

\* the keys of anchorsMap that getAnchorsFromMap keeps
getAnchorsFromMap(anchorsMap) ==
    {k \in DOMAIN anchorsMap : isConditionAnchor(k) \/ isExistanceAnchor(k)}

(***************************************************************************)
(* Value patterns (section 4.1 of the specification)                       *)
(***************************************************************************)
RECURSIVE Glob(_, _)
\* wildcard.Match(pattern, name): '*' is any run of characters, '?' one character
Glob(pat, s) ==
    IF pat = <<>> THEN s = <<>>
    ELSE IF Head(pat) = "*"
         THEN Glob(Tail(pat), s) \/ (s # <<>> /\ Glob(pat, Tail(s)))
    ELSE IF s = <<>> THEN FALSE
    ELSE (Head(pat) = "?" \/ Head(pat) = Head(s)) /\ Glob(Tail(pat), Tail(s))

\* the operator prefix of a string pattern atom, longest first
getOperatorFromStringPattern(p) ==
    IF Len(p) >= 2 /\ SubSeq(p, 1, 2) \in {<<">", "=">>, <<"<", "=">>, <<"!", "=">>}
    THEN SubSeq(p, 1, 2)
    ELSE IF Len(p) >= 1 /\ p[1] \in {">", "<", "!", "="} THEN SubSeq(p, 1, 1)
    ELSE <<>>

\* the number a leaf stands for under numeric coercion, -1 when it is none
NumOf(x) ==
    IF x.t = "num" THEN x.v
    ELSE IF x.t = "str" THEN Atoi(x.v)
    ELSE -1

\* equality of a leaf with an operand: as numbers when both are numbers,
\* as a glob over the string otherwise
MatchOperand(value, operand) ==
    IF NumOf(value) >= 0 /\ Atoi(operand) >= 0 THEN NumOf(value) = Atoi(operand)
    ELSE IF value.t = "str" THEN Glob(operand, value.v)
    ELSE value.t # "null" /\ operand = <<"*">>

\* whether the resource leaf value matches the pattern atom
ValidateValueWithPattern(value, pattern) ==
    IF pattern.t = "null" THEN value.t = "null"
    ELSE IF pattern.t = "num" THEN NumOf(value) = pattern.v
    ELSE IF pattern.t # "str" THEN FALSE
    ELSE LET op == getOperatorFromStringPattern(pattern.v)
             operand == SubSeq(pattern.v, Len(op) + 1, Len(pattern.v))
             bothNum == NumOf(value) >= 0 /\ Atoi(operand) >= 0
         IN  IF op = <<>> \/ op = <<"=">> THEN MatchOperand(value, operand)
             ELSE IF op = <<"!">> \/ op = <<"!", "=">> THEN ~MatchOperand(value, operand)
             ELSE IF op = <<">">> THEN bothNum /\ NumOf(value) > Atoi(operand)
             ELSE IF op = <<"<">> THEN bothNum /\ NumOf(value) < Atoi(operand)
             ELSE IF op = <<">", "=">> THEN bothNum /\ NumOf(value) >= Atoi(operand)
             ELSE bothNum /\ NumOf(value) <= Atoi(operand)

\* Checks if array object matches anchors. If not - skip - return true
skipArrayObject(object, anchors) ==
    \E key \in DOMAIN anchors :
        LET k == SubSeq(key, 2, Len(key) - 1)
        IN  \/ k \notin DOMAIN object
            \/ ~ValidateValueWithPattern(object[k], anchors[key])

(***************************************************************************)
(* JSON Patch (RFC 6902, operations add, replace and remove)               *)
(***************************************************************************)
Patch(op, path, value) == [op |-> op, path |-> path, value |-> value]

\* the reference tokens of a JSON Pointer: strings.Split(path, "/")[1:]
PointerTokens(path) == Tail(Split(path, "/"))

\* the operation at the last reference token, on the container it names
PatchLeaf(node, key, op, value) ==
    IF node.t = "map"
    THEN IF op = "add" THEN JMap(MapPut(node.v, key, value))
         ELSE IF key \notin DOMAIN node.v THEN NoDoc
         ELSE IF op = "replace" THEN JMap(MapPut(node.v, key, value))
         ELSE JMap(MapDel(node.v, key))
    ELSE IF node.t = "arr"
    THEN LET idx == IF key = <<"-">> /\ op = "add" THEN Len(node.v) ELSE Atoi(key)
         IN  IF idx < 0 THEN NoDoc
             ELSE IF op = "add"
                  THEN IF idx > Len(node.v) THEN NoDoc ELSE JArr(SeqInsert(node.v, idx, value))
             ELSE IF idx >= Len(node.v) THEN NoDoc
             ELSE IF op = "replace" THEN JArr(SeqSet(node.v, idx, value))
             ELSE JArr(SeqRemove(node.v, idx))
    ELSE NoDoc

RECURSIVE PatchAt(_, _, _, _)
\* walks the pointer down from node; NoDoc when the operation does not apply
PatchAt(node, toks, op, value) ==
    IF Len(toks) = 1 THEN PatchLeaf(node, toks[1], op, value)
    ELSE IF node.t = "map"
    THEN IF toks[1] \notin DOMAIN node.v THEN NoDoc
         ELSE LET sub == PatchAt(node.v[toks[1]], Tail(toks), op, value)
              IN  IF sub = NoDoc THEN NoDoc ELSE JMap(MapPut(node.v, toks[1], sub))
    ELSE IF node.t = "arr"
    THEN LET idx == Atoi(toks[1])
         IN  IF idx < 0 \/ idx >= Len(node.v) THEN NoDoc
             ELSE LET sub == PatchAt(node.v[idx + 1], Tail(toks), op, value)
                  IN  IF sub = NoDoc THEN NoDoc ELSE JArr(SeqSet(node.v, idx, sub))
    ELSE NoDoc

\* one operation applied to a document; NoDoc when it does not apply
applyPatch(doc, patch) ==
    IF doc = NoDoc \/ patch.path = <<>> \/ Head(patch.path) # "/" THEN NoDoc
    ELSE PatchAt(doc, PointerTokens(patch.path), patch.op, patch.value)

RECURSIVE PatchAll(_, _)
\* the operations of a patch list applied in order; NoDoc when one fails
PatchAll(doc, patches) ==
    IF patches = <<>> THEN doc
    ELSE IF applyPatch(doc, Head(patches)) = NoDoc THEN NoDoc
    ELSE PatchAll(applyPatch(doc, Head(patches)), Tail(patches))

\* ApplyPatches(resource, patches): the patched document and whether an error
\* is returned; on an error the resource is handed back as it was
ApplyPatches(resource, patches) ==
    LET out == PatchAll(resource, patches)
    IN  IF out = NoDoc THEN [doc |-> resource, err |-> TRUE]
        ELSE [doc |-> out, err |-> FALSE]

(***************************************************************************)
(* The overlay mutator.  A call returns (patches, error) or panics; the    *)
(* ranges over Go maps visit the keys in an unspecified order, so that a   *)
(* call has a set of possible outcomes.                                    *)
(***************************************************************************)
Ok(p) == [k |-> "ok", p |-> p]
Err == [k |-> "err", p |-> <<>>]
Panic == [k |-> "panic", p |-> <<>>]

RECURSIVE Chain(_)
\* the outcomes of steps done one after the other, each "if err != nil { return
\* nil, err }; appliedPatches = append(appliedPatches, patches...)"
Chain(steps) ==
    IF steps = <<>> THEN {Ok(<<>>)}
    ELSE UNION { IF o.k = "ok"
                 THEN {IF r.k = "ok" THEN Ok(o.p \o r.p) ELSE r : r \in Chain(Tail(steps))}
                 ELSE {o} : o \in Head(steps) }

RECURSIVE hasOnlyAnchors(_)
hasOnlyAnchors(overlay) ==
    IF overlay.t = "map"
    THEN \/ Cardinality(getAnchorsFromMap(overlay.v)) = Cardinality(DOMAIN overlay.v)
         \/ \A k \in DOMAIN overlay.v : hasOnlyAnchors(overlay.v[k])
    ELSE IF overlay.t = "arr"
    THEN \A i \in 1..Len(overlay.v) : hasOnlyAnchors(overlay.v[i])
    ELSE FALSE

RECURSIVE hasNestedAnchors(_)
hasNestedAnchors(overlay) ==
    IF overlay.t = "map"
    THEN \/ getAnchorsFromMap(overlay.v) # {}
         \/ \E k \in DOMAIN overlay.v : hasNestedAnchors(overlay.v[k])
    ELSE IF overlay.t = "arr"
    THEN \E i \in 1..Len(overlay.v) : hasNestedAnchors(overlay.v[i])
    ELSE FALSE

\* the path of the operation: the trailing "/" of a longer path is cut
TrimPath(path) ==
    IF Len(path) > 1 /\ path[Len(path)] = "/" THEN SubSeq(path, 1, Len(path) - 1)
    ELSE IF path = <<>> THEN <<"/">>
    ELSE path

\* one operation for the subtree, or an error when the subtree has only
\* anchors: its value is then the empty string and the patch does not decode
processSubtree(overlay, path, op) ==
    IF hasOnlyAnchors(overlay) THEN Err
    ELSE Ok(<<Patch(op, TrimPath(path), overlay)>>)

insertSubtree(overlay, path) == processSubtree(overlay, path, "add")

replaceSubtree(overlay, path) == processSubtree(overlay, path, "replace")

RECURSIVE applyOverlay(_, _, _)
RECURSIVE applyOverlayForSameTypes(_, _, _)
RECURSIVE applyOverlayToMap(_, _, _)
RECURSIVE applyOverlayToArray(_, _, _)
RECURSIVE applyOverlayToArrayOfMaps(_, _, _)
RECURSIVE applyOverlayWithAnchors(_, _, _, _)

\* one key of the overlay map when the adding anchor is taken for a plain key
OverlayMapKey_Overwrite(resourceMap, overlayMap, path, key) ==
    LET noAnchorKey == removeAnchor(key)
        currentPath == path \o noAnchorKey \o <<"/">>
    IN  IF isConditionAnchor(key) THEN {Ok(<<>>)}
        ELSE IF noAnchorKey \in DOMAIN resourceMap
        THEN applyOverlay(resourceMap[noAnchorKey], overlayMap[key], currentPath)
        ELSE {insertSubtree(overlayMap[key], currentPath)}

\* the outcomes of one key of the overlay map
OverlayMapKey(resourceMap, overlayMap, path, key) ==
    LET noAnchorKey == removeAnchor(key)
        currentPath == path \o noAnchorKey \o <<"/">>
    IN  IF isConditionAnchor(key) THEN {Ok(<<>>)}
        ELSE IF noAnchorKey \in DOMAIN resourceMap
        THEN IF isAddingAnchor(key) THEN {Ok(<<>>)}
             ELSE applyOverlay(resourceMap[noAnchorKey], overlayMap[key], currentPath)
        ELSE {insertSubtree(overlayMap[key], currentPath)}

applyOverlayToMap(resourceMap, overlayMap, path) ==
    UNION { Chain([i \in 1..Len(order) |->
                      OverlayMapKey(resourceMap, overlayMap, path, order[i])])
            : order \in Perms(DOMAIN overlayMap) }

applyOverlayToArrayOfSameTypes(resource, overlay, path) ==
    IF overlay[1].t = "map" THEN applyOverlayToArrayOfMaps(resource, overlay, path)
    ELSE Chain([i \in 1..Len(overlay) |->
                   {insertSubtree(overlay[i], path \o Itoa(Len(resource) + i - 1) \o <<"/">>)}])

applyOverlayToArray(resource, overlay, path) ==
    IF Len(overlay) = 0 THEN {Err}
    ELSE IF Len(resource) = 0 THEN {insertSubtree(JArr(overlay), path)}
    ELSE IF TypeOf(resource[1]) # TypeOf(overlay[1]) THEN {Err}
    ELSE applyOverlayToArrayOfSameTypes(resource, overlay, path)

\* the outcomes of one element of the overlay array
OverlayArrayElement(resource, overlay, path, i) ==
    IF overlay[i].t # "map" THEN {Panic}
    ELSE LET anchors == getAnchorsFromMap(overlay[i].v)
         IN  IF anchors # {}
             THEN applyOverlayWithAnchors(resource, overlay[i],
                                          [k \in anchors |-> overlay[i].v[k]], path)
             ELSE IF hasNestedAnchors(overlay[i])
             THEN Chain([j \in 1..Len(resource) |->
                            applyOverlay(resource[j], overlay[i], path \o Itoa(j - 1) \o <<"/">>)])
             ELSE {insertSubtree(overlay[i], path \o Itoa(Len(resource) + i - 1) \o <<"/">>)}

applyOverlayToArrayOfMaps(resource, overlay, path) ==
    Chain([i \in 1..Len(overlay) |-> OverlayArrayElement(resource, overlay, path, i)])

applyOverlayWithAnchors(resource, overlay, anchors, path) ==
    Chain([i \in 1..Len(resource) |->
              IF resource[i].t # "map" THEN {Panic}
              ELSE IF skipArrayObject(resource[i].v, anchors) THEN {Ok(<<>>)}
              ELSE applyOverlay(resource[i], overlay, path \o Itoa(i - 1) \o <<"/">>)])

applyOverlayForSameTypes(resource, overlay, path) ==
    IF overlay.t = "map"
    THEN IF resource.t # "map" THEN {Panic}
         ELSE applyOverlayToMap(resource.v, overlay.v, path)
    ELSE IF overlay.t = "arr"
    THEN IF resource.t # "arr" THEN {Panic}
         ELSE applyOverlayToArray(resource.v, overlay.v, path)
    ELSE IF overlay.t \in {"str", "num"} THEN {replaceSubtree(overlay, path)}
    ELSE {Err}

applyOverlay(resource, overlay, path) ==
    IF TypeOf(resource) # TypeOf(overlay) /\ replaceSubtree(overlay, path) = Err
    THEN {Err}
    ELSE applyOverlayForSameTypes(resource, overlay, path)

\* mutateResourceWithOverlay: mutation starts from the root, "/"
mutateResourceWithOverlay(resource, pattern) == applyOverlay(resource, pattern, <<"/">>)

\* ProcessOverlay(rule, rawResource, gvk): a document that does not unmarshal
\* is an error
ProcessOverlay(overlay, rawResource) ==
    IF rawResource = NoDoc THEN {Err}
    ELSE mutateResourceWithOverlay(rawResource, overlay)

(***************************************************************************)
(* Policies, rules and the resource-description matcher                    *)
(***************************************************************************)
\* a pointer field: set, or nil
Some(x) == [set |-> TRUE, v |-> x]
None == [set |-> FALSE, v |-> <<>>]

Kmetadata == <<"m", "e", "t", "a", "d", "a", "t", "a">>
Kname == <<"n", "a", "m", "e">>
Knamespace == <<"n", "a", "m", "e", "s", "p", "a", "c", "e">>
Klabels == <<"l", "a", "b", "e", "l", "s">>

\* a ResourceDescription: kinds, name, namespace, selector (its matchLabels)
Desc(kinds, name, namespace, selector) ==
    [kinds |-> kinds, name |-> name, namespace |-> namespace, selector |-> selector]

findKind(kinds, kindGVK) == kindGVK \in kinds

\* objectJSON["metadata"].(map[string]interface{}), NoDoc when it is none
parseMetadataFromObject(doc) ==
    IF doc.t = "map" /\ Kmetadata \in DOMAIN doc.v /\ doc.v[Kmetadata].t = "map"
    THEN doc.v[Kmetadata]
    ELSE NoDoc

\* the string at metadata[field], "" when there is none
ParseMetaString(doc, field) ==
    LET meta == parseMetadataFromObject(doc)
    IN  IF meta # NoDoc /\ field \in DOMAIN meta.v /\ meta.v[field].t = "str"
        THEN meta.v[field].v
        ELSE <<>>

ParseNameFromObject(doc) == ParseMetaString(doc, Kname)

ParseNamespaceFromObject(doc) == ParseMetaString(doc, Knamespace)

\* the labels of the metadata as a labels.Set, empty when there are none
parseLabelsFromMetadata(meta) ==
    IF Klabels \in DOMAIN meta.v /\ meta.v[Klabels].t = "map"
    THEN [k \in DOMAIN meta.v[Klabels].v |-> meta.v[Klabels].v[k].v]
    ELSE EmptyMap

\* selector.Matches(labelMap) for a selector made of matchLabels
SelectorMatches(matchLabels, labelMap) ==
    \A k \in DOMAIN matchLabels : k \in DOMAIN labelMap /\ labelMap[k] = matchLabels[k]

ResourceMeetsDescription(resourceRaw, matches, exclude, kind) ==
    IF ~findKind(matches.kinds, kind) THEN FALSE
    ELSE IF resourceRaw = NoDoc THEN TRUE
    ELSE LET meta == parseMetadataFromObject(resourceRaw)
             name == ParseNameFromObject(resourceRaw)
             namespace == ParseNamespaceFromObject(resourceRaw)
         IN  /\ matches.name.set => Glob(matches.name.v, name)
             /\ exclude.name.set => ~Glob(exclude.name.v, name)
             /\ matches.namespace.set => matches.namespace.v = namespace
             /\ exclude.namespace.set => exclude.namespace.v # namespace
             /\ (matches.selector.set /\ meta # NoDoc)
                    => SelectorMatches(matches.selector.v, parseLabelsFromMetadata(meta))
             /\ (exclude.selector.set /\ meta # NoDoc)
                    => ~SelectorMatches(exclude.selector.v, parseLabelsFromMetadata(meta))

\* a rule: its name, match and exclude blocks, and its Mutation and
\* Validation bodies (nil when absent)
Rule(name, match, exclude, mutation, validation) ==
    [name |-> name, match |-> match, exclude |-> exclude,
     mutation |-> mutation, validation |-> validation]

\* a Mutation body: the overlay (nil when absent) and the explicit patches
Mutation(overlay, patches) == Some([overlay |-> overlay, patches |-> patches])

(***************************************************************************)
(* Mutate                                                                  *)
(***************************************************************************)
RECURSIVE ProcessPatchesFrom(_, _, _)
\* the explicit patches applied one by one to the running document: those
\* that applied, and whether one failed
ProcessPatchesFrom(patches, doc, acc) ==
    IF patches = <<>> THEN acc
    ELSE LET next == applyPatch(doc, Head(patches))
         IN  IF next = NoDoc
             THEN ProcessPatchesFrom(Tail(patches), doc, [acc EXCEPT !.errs = TRUE])
             ELSE ProcessPatchesFrom(Tail(patches), next,
                                     [acc EXCEPT !.patches = Append(@, Head(patches))])

ProcessPatches(patches, resource) ==
    IF resource = NoDoc THEN [patches |-> <<>>, errs |-> TRUE]
    ELSE ProcessPatchesFrom(patches, resource, [patches |-> <<>>, errs |-> FALSE])

\* a Mutate that leaves out the check of the resource description
MutateApplicable_NoMatch(rule, raw, kind) == rule.mutation.set

\* lines 19-28 of Mutate: the rule has a Mutation body and the raw resource
\* meets its description
MutateApplicable(rule, raw, kind) ==
    rule.mutation.set /\ ResourceMeetsDescription(raw, rule.match, rule.exclude, kind)

\* "Process Overlay" of the loop body: where the body goes next ("continue",
\* "next" or "panic") and the values of rulePatches, allPatches and ri
MutateOverlayStage(rule, st) ==
    IF ~rule.mutation.v.overlay.set
    THEN {[go |-> "next", rulePatches |-> st.rulePatches,
           allPatches |-> st.allPatches, failed |-> FALSE]}
    ELSE { IF o.k = "panic"
           THEN [go |-> "panic", rulePatches |-> st.rulePatches,
                 allPatches |-> st.allPatches, failed |-> FALSE]
           ELSE IF o.k = "err"
           THEN [go |-> "next", rulePatches |-> <<>>,
                 allPatches |-> st.allPatches, failed |-> TRUE]
           ELSE IF o.p = <<>>
           THEN [go |-> "continue", rulePatches |-> <<>>,
                 allPatches |-> st.allPatches, failed |-> FALSE]
           ELSE [go |-> "next", rulePatches |-> o.p,
                 allPatches |-> st.allPatches \o o.p, failed |-> FALSE]
           : o \in ProcessOverlay(rule.mutation.v.overlay.v, st.patchedDocument) }

\* "Process Patches" of the loop body
MutatePatchesStage(rule, st, a) ==
    IF Len(rule.mutation.v.patches) = 0 THEN a
    ELSE LET pp == ProcessPatches(rule.mutation.v.patches, st.patchedDocument)
         IN  IF pp.errs
             THEN [a EXCEPT !.rulePatches = pp.patches, !.failed = TRUE]
             ELSE [a EXCEPT !.rulePatches = pp.patches,
                            !.allPatches = a.allPatches \o pp.patches]

\* one pass of the loop body for an applicable rule, from the locals st of
\* Mutate to the locals after the pass
MutateRuleBody(idx, rule, raw, st) ==
    { IF a.go = "panic" THEN [st EXCEPT !.pc = "panic"]
      ELSE IF a.go = "continue" THEN [st EXCEPT !.rulePatches = a.rulePatches]
      ELSE LET b == MutatePatchesStage(rule, st, a)
           IN  [pc |-> st.pc,
                allPatches |-> b.allPatches,
                rulePatches |-> b.rulePatches,
                patchedDocument |-> ApplyPatches(raw, b.rulePatches).doc,
                ris |-> Append(st.ris,
                               [rule |-> idx, success |-> ~b.failed,
                                \* what the rule appended to allPatches, and whether
                                \* ApplyPatches returned an error for it
                                contributed |-> SubSeq(b.allPatches, Len(st.allPatches) + 1,
                                                       Len(b.allPatches)),
                                applyErr |-> ApplyPatches(raw, b.rulePatches).err])]
      : a \in MutateOverlayStage(rule, st) }

(***************************************************************************)
(* References $(...) of a validation pattern.  A call returns a value      *)
(* ("ok"), an error ("err", with its message and the path it names) or     *)
(* panics; an error handed on as a value is the value JErr(error).         *)
(***************************************************************************)
JErr(e) == [t |-> "error", v |-> e]

getRawKeyIfWrappedWithAttributes(str) ==
    IF Len(str) < 2 THEN str
    ELSE IF str[1] = "(" /\ str[Len(str)] = ")" THEN SubSeq(str, 2, Len(str) - 1)
    ELSE IF str[1] \in {"$", "^", "+"} /\ str[2] = "(" /\ str[Len(str)] = ")"
    THEN SubSeq(str, 3, Len(str) - 1)
    ELSE str

\* the reference sign is "$()"
isStringIsReference(str) ==
    IF Len(str) < 3 THEN FALSE
    ELSE str[1] = "$" /\ str[2] = "(" /\ str[Len(str)] = ")"

\* FormAbsolutePath: an absolute reference as it is, a relative one joined to
\* absolutePath by filepath.Join, which drops empty and "." elements and
\* resolves ".."
FormAbsolutePath(referencePath, absolutePath) ==
    LET RECURSIVE Clean(_, _)
        Clean(elems, acc) ==
            IF elems = <<>> THEN acc
            ELSE IF Head(elems) \in {<<>>, <<".">>} THEN Clean(Tail(elems), acc)
            ELSE IF Head(elems) = <<".", ".">>
            THEN Clean(Tail(elems), IF acc = <<>> THEN acc ELSE SubSeq(acc, 1, Len(acc) - 1))
            ELSE Clean(Tail(elems), Append(acc, Head(elems)))
        RECURSIVE Joined(_)
        Joined(elems) ==
            IF elems = <<>> THEN <<>> ELSE <<"/">> \o Head(elems) \o Joined(Tail(elems))
        cleaned == Clean(Split(absolutePath, "/") \o Split(referencePath, "/"), <<>>)
    IN  IF referencePath # <<>> /\ Head(referencePath) = "/" THEN referencePath
        ELSE IF cleaned = <<>> THEN <<"/">>
        ELSE Joined(cleaned)

RECURSIVE getValueFromPattern(_, _, _)
RECURSIVE GetValueRange(_, _, _, _, _)
\* the range over patternMap in the order order, from its j-th key on;
\* currentKeyIndex counts from 0 as in the source
GetValueRange(patternMap, order, j, keys, currentKeyIndex) ==
    LET last == Len(keys) - 1
        nonExistent == [k |-> "err",
                        p |-> [msg |-> "Reference to non-existent place in the document",
                               path |-> <<>>]]
        RECURSIVE Reversed(_)
        Reversed(ks) == IF ks = <<>> THEN <<>> ELSE Reversed(Tail(ks)) \o <<"/">> \o Head(ks)
    IN  IF j > Len(order)
        THEN {[k |-> "err", p |-> [msg |-> "No value found for specified reference",
                                   path |-> Reversed(keys)]]}
        ELSE LET pattern == patternMap[order[j]]
                 rawKey == getRawKeyIfWrappedWithAttributes(order[j])
             IN  IF rawKey = keys[last + 1] /\ currentKeyIndex = last THEN {Ok(pattern)}
                 ELSE IF currentKeyIndex > last THEN {Panic}
                 ELSE IF rawKey # keys[currentKeyIndex + 1] /\ currentKeyIndex # last
                 THEN GetValueRange(patternMap, order, j + 1, keys, currentKeyIndex)
                 ELSE IF pattern.t = "arr"
                 THEN IF keys[currentKeyIndex + 1] # rawKey \/ Len(pattern.v) = 0
                      THEN {nonExistent}
                      ELSE IF pattern.v[1].t # "map"
                      THEN {[k |-> "err",
                             p |-> [msg |-> "Pattern and resource have different structures",
                                    path |-> <<>>]]}
                      ELSE IF keys[currentKeyIndex + 2] = Itoa(0)
                      THEN getValueFromPattern(pattern.v[1].v, keys, currentKeyIndex + 2)
                      ELSE {nonExistent}
                 ELSE IF pattern.t = "map"
                 THEN IF keys[currentKeyIndex + 1] = rawKey
                      THEN getValueFromPattern(pattern.v, keys, currentKeyIndex + 1)
                      ELSE {nonExistent}
                 ELSE GetValueRange(patternMap, order, j + 1, keys, currentKeyIndex)

getValueFromPattern(patternMap, keys, currentKeyIndex) ==
    UNION { GetValueRange(patternMap, order, 1, keys, currentKeyIndex)
            : order \in Perms(DOMAIN patternMap) }

getValueFromReference(origPattern, reference) ==
    IF origPattern.t # "map" THEN {Panic}
    ELSE getValueFromPattern(origPattern.v, Split(Tail(reference), "/"), 0)

\* actualizePattern: the pattern the reference stands for.  An error of
\* getValueFromReference is returned as the value, with a nil error
\* ("return err, nil"); with an operator the value is turned into a string
\* (a number by "%f") and the operator put in front
actualizePattern(origPattern, referencePattern, absolutePath) ==
    LET RECURSIVE TrimLeft(_)
        TrimLeft(str) ==
            IF str # <<>> /\ Head(str) \in {"$", "(", ")"} THEN TrimLeft(Tail(str)) ELSE str
        RECURSIVE TrimRight(_)
        TrimRight(str) ==
            IF str # <<>> /\ str[Len(str)] \in {"$", "(", ")"}
            THEN TrimRight(SubSeq(str, 1, Len(str) - 1)) ELSE str
        trimmed == TrimRight(TrimLeft(referencePattern))
        operator == getOperatorFromStringPattern(trimmed)
        reference == SubSeq(trimmed, Len(operator) + 1, Len(trimmed))
    IN  IF reference = <<>>
        THEN {[k |-> "err", p |-> [msg |-> "Expected path. Found empty reference", path |-> <<>>]]}
        ELSE { IF o.k = "panic" THEN Panic
               ELSE IF o.k = "err" THEN Ok(JErr(o.p))
               ELSE IF operator = <<>> THEN o
               ELSE IF o.p.t = "str" THEN Ok(JStr(operator \o o.p.v))
               ELSE IF o.p.t = "num"
               THEN Ok(JStr(operator \o Itoa(o.p.v) \o <<".", "0", "0", "0", "0", "0", "0">>))
               ELSE [k |-> "err", p |-> [msg |-> "Incorrect expression", path |-> <<>>]]
               : o \in getValueFromReference(origPattern,
                                             FormAbsolutePath(reference, absolutePath)) }

(***************************************************************************)
(* Validate.  A call returns nil ("ok"), an error ("err") or panics.       *)
(***************************************************************************)
RECURSIVE validateResourceElement(_, _, _, _)
RECURSIVE validateMap(_, _, _, _)
RECURSIVE validateArray(_, _, _, _)
RECURSIVE validateArrayOfMaps(_, _, _, _)

\* one key of the pattern map
ValidateMapKey(resourceMap, patternMap, origPattern, path, anchoredKey) ==
    LET key == removeAnchor(anchoredKey)
        patternElement == patternMap[anchoredKey]
    IN  IF patternElement = JStr(<<"*">>)
        THEN IF MapGet(resourceMap, key) # JNull THEN {Ok(<<>>)} ELSE {Err}
        ELSE validateResourceElement(MapGet(resourceMap, key), patternElement,
                                     origPattern, path \o key \o <<"/">>)

validateMap(resourceMap, patternMap, origPattern, path) ==
    UNION { Chain([i \in 1..Len(order) |->
                      ValidateMapKey(resourceMap, patternMap, origPattern, path, order[i])])
            : order \in Perms(DOMAIN patternMap) }

\* the array-of-maps mode of section 4.4: an element whose condition anchors
\* do not hold is skipped, the others are validated against the pattern map;
\* an existence anchor requires one element that holds it
validateArrayOfMaps(resourceMapArray, patternMap, originPattern, path) ==
    LET conds == {k \in DOMAIN patternMap : isConditionAnchor(k)}
        exists == {k \in DOMAIN patternMap : isExistanceAnchor(k)}
        holds(elem, k) == /\ removeAnchor(k) \in DOMAIN elem.v
                          /\ ValidateValueWithPattern(elem.v[removeAnchor(k)], patternMap[k])
        selected(elem) == \A k \in conds : holds(elem, k)
    IN  IF exists # {} /\ ~\E i \in 1..Len(resourceMapArray) :
                             /\ resourceMapArray[i].t = "map"
                             /\ \A k \in exists : holds(resourceMapArray[i], k)
        THEN {Err}
        ELSE Chain([i \in 1..Len(resourceMapArray) |->
                       IF resourceMapArray[i].t # "map" THEN {Err}
                       ELSE IF ~selected(resourceMapArray[i]) THEN {Ok(<<>>)}
                       ELSE validateMap(resourceMapArray[i].v,
                                        [k \in DOMAIN patternMap \ exists |-> patternMap[k]],
                                        originPattern, path \o Itoa(i - 1) \o <<"/">>)])

validateArray(resourceArray, patternArray, originPattern, path) ==
    IF Len(patternArray) = 0 THEN {Err}
    ELSE IF patternArray[1].t = "map"
    THEN validateArrayOfMaps(resourceArray, patternArray[1].v, originPattern, path)
    ELSE Chain([i \in 1..Len(patternArray) |->
                   IF i > Len(resourceArray) THEN {Panic}
                   ELSE validateResourceElement(resourceArray[i], patternArray[i],
                                                originPattern, path \o Itoa(i - 1) \o <<"/">>)])

validateResourceElement(resourceElement, patternElement, originPattern, path) ==
    IF patternElement.t = "map"
    THEN IF resourceElement.t # "map" THEN {Err}
         ELSE validateMap(resourceElement.v, patternElement.v, originPattern, path)
    ELSE IF patternElement.t = "arr"
    THEN IF resourceElement.t # "arr" THEN {Err}
         ELSE validateArray(resourceElement.v, patternElement.v, originPattern, path)
    ELSE IF patternElement.t = "str" /\ isStringIsReference(patternElement.v)
    THEN { IF o.k = "panic" THEN Panic
           ELSE IF o.k = "err" THEN Err
           ELSE IF ValidateValueWithPattern(resourceElement, o.p) THEN Ok(<<>>)
           ELSE Err
           : o \in actualizePattern(originPattern, patternElement.v, path) }
    ELSE IF ValidateValueWithPattern(resourceElement, patternElement) THEN {Ok(<<>>)}
    ELSE {Err}

\* validation starts from the root, "/"
validateResourceWithPattern(resource, pattern) ==
    validateResourceElement(resource, pattern, pattern, <<"/">>)

\* MatchesResourceDescription(resource, rule)
MatchesResourceDescription(resource, rule, kind) ==
    ResourceMeetsDescription(resource, rule.match, rule.exclude, kind)

\* lines 53-64 of Validate: the rule has a Validation body and the resource
\* satisfies its description
ValidateApplicable(rule, resource, kind) ==
    rule.validation.set /\ MatchesResourceDescription(resource, rule, kind)

\* one pass of the loop body for an applicable rule: the rule infos after
\* it, or a panic
ValidateRuleBody(idx, rule, resource, st) ==
    { IF o.k = "panic" THEN [st EXCEPT !.pc = "panic"]
      ELSE [st EXCEPT !.ruleInfos = Append(@, [rule |-> idx, success |-> o.k = "ok"])]
      : o \in validateResourceWithPattern(resource, rule.validation.v) }

(***************************************************************************)
(* The requests and policies that are explored                             *)
(***************************************************************************)
Ka == <<"a">>
Kb == <<"b">>
Kc == <<"c">>
Kl == <<"l">>
Kz == <<"z">>
JS(c) == JStr(<<c>>)

\* {metadata: {name: "d", labels: {b: "t"}}, a: "y", l: ["p"]}
ResA ==
    JMap((Kmetadata :> JMap((Kname :> JS("d")) @@ (Klabels :> JMap(Kb :> JS("t")))))
         @@ (Ka :> JS("y")) @@ (Kl :> JArr(<<JS("p")>>)))

\* {metadata: {name: "e"}, a: "x", c: {a: "x"}, l: []}
ResB ==
    JMap((Kmetadata :> JMap(Kname :> JS("e")))
         @@ (Ka :> JS("x")) @@ (Kc :> JMap(Ka :> JS("x"))) @@ (Kl :> JArr(<<>>)))

\* {a: "y", c: "s", l: [{a: "x"}, {a: "y"}]}
ResC ==
    JMap((Ka :> JS("y")) @@ (Kc :> JS("s"))
         @@ (Kl :> JArr(<<JMap(Ka :> JS("x")), JMap(Ka :> JS("y"))>>)))

\* the admission requests: the raw object and the kind of its GroupVersionKind;
\* NoDoc is a raw object that does not parse
Requests ==
    { [raw |-> ResA, kind |-> "Deployment"],
      [raw |-> ResB, kind |-> "Deployment"],
      [raw |-> ResC, kind |-> "Pod"],
      [raw |-> NoDoc, kind |-> "Deployment"] }

AnyKind == Desc({"Deployment", "Pod"}, None, None, None)
NoExclude == Desc({}, None, None, None)

MutRule(name, match, exclude, overlay, patches) ==
    Rule(name, match, exclude, Mutation(overlay, patches), None)

ValRule(name, match, exclude, pattern) ==
    Rule(name, match, exclude, None, Some(pattern))

\* the rules policies are made of
Rules ==
    { \* overlay {b: "x"}
      MutRule("addB", AnyKind, NoExclude, Some(JMap(Kb :> JS("x"))), <<>>),
      \* overlay {a: "x", z: "x"}
      MutRule("setAZ", AnyKind, NoExclude, Some(JMap((Ka :> JS("x")) @@ (Kz :> JS("x")))), <<>>),
      \* overlay {b: "x"} and the patch add /c "z"
      MutRule("both", AnyKind, NoExclude, Some(JMap(Kb :> JS("x"))),
              <<Patch("add", <<"/", "c">>, JS("z"))>>),
      \* overlay {b: "x"} and the patch replace /z "v"
      MutRule("badPatch", AnyKind, NoExclude, Some(JMap(Kb :> JS("x"))),
              <<Patch("replace", <<"/", "z">>, JS("v"))>>),
      \* overlay {(a): "y"} and the patch add /c "z"
      MutRule("condBoth", AnyKind, NoExclude, Some(JMap(<<"(", "a", ")">> :> JS("y"))),
              <<Patch("add", <<"/", "c">>, JS("z"))>>),
      \* overlay {c: {b: "x"}}
      MutRule("mapC", AnyKind, NoExclude, Some(JMap(Kc :> JMap(Kb :> JS("x")))), <<>>),
      \* overlay {l: ["q"]}
      MutRule("appendL", AnyKind, NoExclude, Some(JMap(Kl :> JArr(<<JS("q")>>))), <<>>),
      \* overlay {(a): "y"}
      MutRule("condOnly", AnyKind, NoExclude, Some(JMap(<<"(", "a", ")">> :> JS("y"))), <<>>),
      \* overlay {b: {(a): "x"}}
      MutRule("anchorSub", AnyKind, NoExclude,
              Some(JMap(Kb :> JMap(<<"(", "a", ")">> :> JS("x")))), <<>>),
      \* overlay {b: "x"} for pods named d*
      MutRule("podOnly", Desc({"Pod"}, Some(<<"d", "*">>), None, None), NoExclude,
              Some(JMap(Kb :> JS("x"))), <<>>),
      \* overlay {b: "x"} unless the resource has the label b=t
      MutRule("exclLabel", AnyKind, Desc({}, None, None, Some(Kb :> <<"t">>)),
              Some(JMap(Kb :> JS("x"))), <<>>),
      \* the patch remove /a
      MutRule("removeA", AnyKind, NoExclude, None, <<Patch("remove", <<"/", "a">>, JNull)>>),
      \* pattern {a: "y"}
      ValRule("valA", AnyKind, NoExclude, JMap(Ka :> JS("y"))),
      \* pattern {l: ["p", "q"]} for deployments
      ValRule("valL", Desc({"Deployment"}, None, None, None), NoExclude,
              JMap(Kl :> JArr(<<JS("p"), JS("q")>>))),
      \* pattern {b: "*"}
      ValRule("valB", AnyKind, NoExclude, JMap(Kb :> JS("*"))) }

RECURSIVE SeqsUpTo(_, _)
\* the sequences over S of length at most n
SeqsUpTo(S, n) ==
    IF n = 0 THEN {<<>>}
    ELSE SeqsUpTo(S, n - 1) \cup {Append(q, x) : q \in SeqsUpTo(S, n - 1), x \in S}

\* policy.Spec.Rules of the policies that are explored
Policies == SeqsUpTo(Rules, MaxRules)

(***************************************************************************)
(* State                                                                   *)
(***************************************************************************)
VARIABLES
    policy,            \* policy.Spec.Rules
    rawResource,       \* the raw resource Mutate is called with
    kind,              \* gvk.Kind
    pc,                \* Mutate: "loop", "done" (returned) or "panic"
    ridx,              \* the position of the range over the rules
    allPatches,        \* locals of Mutate
    rulePatches,
    patchedDocument,
    ris,
    mode,              \* "first": the first invocation; "same": a second one on
                       \* the same inputs; "patched": a second one on the patched
                       \* resource of the first
    first,             \* what the first invocation returned
    vpc,               \* Validate: "idle", "loop", "done", "error" or "panic"
    vidx,              \* the position of the range over the rules
    ruleInfos,         \* local of Validate
    opc,               \* the overlay of one rule applied twice: "idle", "start",
                       \* "patched", "once", "twice" or "failed"
    oResource,         \* the resource the overlay is processed on
    oOverlay,          \* rule.Mutation.Overlay
    oPatches,          \* the patches ProcessOverlay returned
    oOnce,             \* the resource with the patches applied
    oTwice,            \* ... and applied again
    policies,          \* the policies of the policy lister, each its Spec.Rules
    block,             \* toBlockResource of the engine responses
    apc,               \* handleAdmissionRequest: "idle", "mutation", "mutated",
                       \* "patched", "validation", "validated", "responded", "panic"
    aidx,              \* the position of the range over the policies
    patches,           \* HandleMutation: the patches gathered
    engineResponses,   \* IsSuccesful() of the engine responses of the handler
    okMutation,        \* ok of HandleMutation
    patchedResource,   \* processResourceWithPatches(...), None for nil
    resourceRaw,       \* HandleValidation: the raw resource it validates
    okValidation,      \* ok of HandleValidation
    response,          \* the AdmissionResponse
    fpc,               \* a function called on its own: "idle", "call" or "done"
    fin,               \* its arguments
    fout,              \* what it returned
    listErr,           \* the callers for which ws.pLister.List returns an error
    policyStats,       \* the statistics gathered by the handler that is running
    sentStats,         \* the statistics sent by SendStat: the handler, the blocked flag
    events,            \* the calls of ws.eventGen.Add: the handler
    violations,        \* policyviolation.CreatePV has been called
    message,           \* the message the last handler returned
    rm,                \* the ResourceManager: data, time, rebuildTime
    now,               \* time.Now(), in seconds
    hist,              \* the calls made on the ResourceManager, with what they returned
    mux,               \* rm.mux: the invocation that holds the lock, or 0
    workers,           \* the invocations of processExistingResources
    applied,           \* the calls of applyPolicyOnResource: the key, the drops before it
    drops,             \* the number of times the cache has been emptied
    cd,                \* the ConfigData: cmName, filters, and whether a handler panicked
    cmHist             \* the ConfigMap events and ToFilter calls, with what they left

inputs == <<policy, kind>>
mvars == <<pc, ridx, allPatches, rulePatches, patchedDocument, ris>>
ivars == <<mode, first>>
vvars == <<vpc, vidx, ruleInfos>>
ovars == <<opc, oResource, oOverlay, oPatches, oOnce, oTwice>>
avars == <<policies, block, apc, aidx, patches, engineResponses, okMutation, patchedResource,
           resourceRaw, okValidation, response>>
fvars == <<fpc, fin, fout>>
wvars == <<listErr, policyStats, sentStats, events, violations, message>>
rvars == <<rm, now, hist, mux, workers, applied, drops>>
cvars == <<cd, cmHist>>
vars == <<inputs, rawResource, mvars, ivars, vvars, ovars, avars, fvars, wvars, rvars, cvars>>

\* no function is called on its own
IdleFunction ==
    /\ fpc = "idle"
    /\ fin = <<>>
    /\ fout = <<>>

NoResult == [allPatches |-> <<>>, patchedDocument |-> NoDoc, ris |-> <<>>]

\* no ResourceManager and no ConfigData is in use
IdleManager ==
    /\ cd = [cmName |-> <<>>, filters |-> <<>>, panicked |-> FALSE]
    /\ cmHist = <<>>
    /\ rm = [data |-> {}, time |-> 0, rebuildTime |-> 0]
    /\ now = 0
    /\ hist = <<>>
    /\ mux = 0
    /\ workers = <<>>
    /\ applied = <<>>
    /\ drops = 0

\* no admission request is handled
IdleAdmission ==
    /\ listErr = {}
    /\ policyStats = 0
    /\ sentStats = <<>>
    /\ events = <<>>
    /\ violations = FALSE
    /\ message = ""
    /\ policies = <<>>
    /\ block = FALSE
    /\ apc = "idle"
    /\ aidx = 1
    /\ patches = <<>>
    /\ engineResponses = <<>>
    /\ okMutation = FALSE
    /\ patchedResource = None
    /\ resourceRaw = None
    /\ okValidation = FALSE
    /\ response = None

\* no overlay is processed on its own
IdleOverlay ==
    /\ opc = "idle"
    /\ oResource = NoDoc
    /\ oOverlay = NoDoc
    /\ oPatches = <<>>
    /\ oOnce = NoDoc
    /\ oTwice = NoDoc

\* no policy is evaluated by the action steps of Mutate and Validate
IdleEngine ==
    /\ policy = <<>>
    /\ pc = "done"
    /\ ridx = 1
    /\ allPatches = <<>>
    /\ rulePatches = <<>>
    /\ patchedDocument = NoDoc
    /\ ris = <<>>
    /\ mode = "none"
    /\ first = NoResult
    /\ vpc = "idle"
    /\ vidx = 1
    /\ ruleInfos = <<>>

\* the locals of Mutate as a record
MutateLocals ==
    [pc |-> pc, allPatches |-> allPatches, rulePatches |-> rulePatches,
     patchedDocument |-> patchedDocument, ris |-> ris]

\* the entry of Mutate: lines 12-16
MutateEntry(raw) ==
    /\ pc' = "loop"
    /\ ridx' = 1
    /\ allPatches' = <<>>
    /\ rulePatches' = <<>>
    /\ patchedDocument' = raw
    /\ ris' = <<>>

Init ==
    /\ policy \in Policies
    /\ \E req \in Requests : rawResource = req.raw /\ kind = req.kind
    /\ pc = "loop"
    /\ ridx = 1
    /\ allPatches = <<>>
    /\ rulePatches = <<>>
    /\ patchedDocument = rawResource
    /\ ris = <<>>
    /\ mode = "first"
    /\ first = NoResult
    /\ vpc = "idle"
    /\ vidx = 1
    /\ ruleInfos = <<>>
    /\ IdleOverlay
    /\ IdleAdmission
    /\ IdleManager
    /\ IdleFunction

(***************************************************************************)
(* Mutate, one rule of the range at a time                                 *)
(***************************************************************************)
\* the rule has no Mutation body or does not meet the description: continue
MutateSkip ==
    /\ pc = "loop"
    /\ ridx <= Len(policy)
    /\ ~MutateApplicable(policy[ridx], rawResource, kind)
    /\ ridx' = ridx + 1
    /\ UNCHANGED <<inputs, rawResource, pc, allPatches, rulePatches, patchedDocument, ris,
                   ivars, vvars, ovars, avars, fvars, wvars, rvars, cvars>>

\* the loop body for an applicable rule
MutateRule ==
    /\ pc = "loop"
    /\ ridx <= Len(policy)
    /\ MutateApplicable(policy[ridx], rawResource, kind)
    /\ \E st \in MutateRuleBody(ridx, policy[ridx], rawResource, MutateLocals) :
          /\ pc' = st.pc
          /\ allPatches' = st.allPatches
          /\ rulePatches' = st.rulePatches
          /\ patchedDocument' = st.patchedDocument
          /\ ris' = st.ris
          /\ ridx' = IF st.pc = "panic" THEN ridx ELSE ridx + 1
    /\ UNCHANGED <<inputs, rawResource, ivars, vvars, ovars, avars, fvars, wvars, rvars, cvars>>

\* the range is over: return allPatches, patchedDocument, ris
MutateReturn ==
    /\ pc = "loop"
    /\ ridx > Len(policy)
    /\ pc' = "done"
    /\ UNCHANGED <<inputs, rawResource, ridx, allPatches, rulePatches, patchedDocument, ris,
                   ivars, vvars, ovars, avars, fvars, wvars, rvars, cvars>>

\* a second invocation of Mutate with the same policy and resource
InvokeSame ==
    /\ pc = "done"
    /\ mode = "first"
    /\ vpc = "idle"
    /\ mode' = "same"
    /\ first' = [allPatches |-> allPatches, patchedDocument |-> patchedDocument, ris |-> ris]
    /\ MutateEntry(rawResource)
    /\ UNCHANGED <<inputs, rawResource, vvars, ovars, avars, fvars, wvars, rvars, cvars>>

\* a second invocation of Mutate with the same policy, on the patched
\* resource the first one returned
InvokePatched ==
    /\ pc = "done"
    /\ mode = "first"
    /\ vpc = "idle"
    /\ mode' = "patched"
    /\ first' = [allPatches |-> allPatches, patchedDocument |-> patchedDocument, ris |-> ris]
    /\ rawResource' = patchedDocument
    /\ MutateEntry(patchedDocument)
    /\ UNCHANGED <<inputs, vvars, ovars, avars, fvars, wvars, rvars, cvars>>

(***************************************************************************)
(* Validate of the patched resource, one rule of the range at a time       *)
(***************************************************************************)
\* the entry of Validate: the resource is marshalled and unmarshalled
ValidateEntry ==
    /\ pc = "done"
    /\ mode = "first"
    /\ vpc = "idle"
    /\ vpc' = IF patchedDocument = NoDoc THEN "error" ELSE "loop"
    /\ UNCHANGED <<inputs, rawResource, mvars, ivars, vidx, ruleInfos, ovars, avars, fvars, wvars, rvars, cvars>>

ValidateSkip ==
    /\ vpc = "loop"
    /\ vidx <= Len(policy)
    /\ ~ValidateApplicable(policy[vidx], patchedDocument, kind)
    /\ vidx' = vidx + 1
    /\ UNCHANGED <<inputs, rawResource, mvars, ivars, vpc, ruleInfos, ovars, avars, fvars, wvars, rvars, cvars>>

ValidateRule ==
    /\ vpc = "loop"
    /\ vidx <= Len(policy)
    /\ ValidateApplicable(policy[vidx], patchedDocument, kind)
    /\ \E st \in ValidateRuleBody(vidx, policy[vidx], patchedDocument,
                                  [pc |-> vpc, ruleInfos |-> ruleInfos]) :
          /\ vpc' = st.pc
          /\ ruleInfos' = st.ruleInfos
          /\ vidx' = IF st.pc = "panic" THEN vidx ELSE vidx + 1
    /\ UNCHANGED <<inputs, rawResource, mvars, ivars, ovars, avars, fvars, wvars, rvars, cvars>>

ValidateReturn ==
    /\ vpc = "loop"
    /\ vidx > Len(policy)
    /\ vpc' = "done"
    /\ UNCHANGED <<inputs, rawResource, mvars, ivars, vidx, ruleInfos, ovars, avars, fvars, wvars, rvars, cvars>>

Next ==
    \/ MutateSkip
    \/ MutateRule
    \/ MutateReturn
    \/ InvokeSame
    \/ InvokePatched
    \/ ValidateEntry
    \/ ValidateSkip
    \/ ValidateRule
    \/ ValidateReturn

Spec == Init /\ [][Next]_vars

(***************************************************************************)
(* Properties of Mutate and Validate                                       *)
(***************************************************************************)
RECURSIVE Contributed(_)
\* the patches of the successful rule results, in rule order
Contributed(results) ==
    IF results = <<>> THEN <<>>
    ELSE (IF Head(results).success /\ ~Head(results).applyErr
          THEN Head(results).contributed ELSE <<>>) \o Contributed(Tail(results))

\* C1: whenever Mutate is about to evaluate an applicable rule, the document
\* it evaluates the rule against is the raw resource patched with the patches
\* of all earlier successfully applied rules (sequential composition).
C1_SequentialComposition ==
    (pc = "loop" /\ ridx <= Len(policy) /\ MutateApplicable(policy[ridx], rawResource, kind))
        => patchedDocument = PatchAll(rawResource, Contributed(ris))

\* C2: when Mutate returns, applying the aggregated patch list it returns to
\* the original resource yields exactly the patched resource it returns.
C2_AggregateYieldsPatched ==
    pc = "done" => patchedDocument = PatchAll(rawResource, allPatches)

\* C3: when Mutate returns, the aggregated patch is the concatenation, in rule
\* order, of the patches of the successful rules only: a rule that is marked
\* failed, or whose patches failed to apply, contributes none.
C3_OnlySuccessfulContribute ==
    pc = "done" => allPatches = Contributed(ris)

\* C18: when Mutate evaluates a rule with an overlay and explicit patches, it
\* processes the overlay first and the patches afterwards, the patches for
\* every outcome of the overlay that is no error; the operations of both are
\* appended, in this order, to the patches, and the patched resource has both.
C18_OverlayThenPatches ==
    [][(/\ pc = "loop"
        /\ ridx <= Len(policy)
        /\ MutateApplicable(policy[ridx], rawResource, kind)
        /\ policy[ridx].mutation.v.overlay.set
        /\ Len(policy[ridx].mutation.v.patches) > 0
        /\ pc' # pc \/ ridx' # ridx)
       => \E o \in ProcessOverlay(policy[ridx].mutation.v.overlay.v, patchedDocument) :
             LET pp == ProcessPatches(policy[ridx].mutation.v.patches, patchedDocument)
             IN  (o.k = "ok" /\ ~pp.errs)
                     => /\ allPatches' = allPatches \o o.p \o pp.patches
                        /\ patchedDocument' = PatchAll(patchedDocument, o.p \o pp.patches)]_vars

\* rule i of the range failed: its result is marked failed, or it aborted
MutateFailedAt(i) ==
    \/ \E e \in 1..Len(ris) : ris[e].rule = i /\ ~ris[e].success
    \/ pc = "panic" /\ ridx = i

ValidateFailedAt(i) ==
    \/ \E e \in 1..Len(ruleInfos) : ruleInfos[e].rule = i /\ ~ruleInfos[e].success
    \/ vpc = "panic" /\ vidx = i

\* C4: when Mutate or Validate has ended, every rule that matches the resource
\* and comes after a failed rule has been evaluated: the failure of rule N does
\* not prevent the evaluation of rule N+1.
C4_RulesIndependent ==
    /\ pc \in {"done", "panic"} =>
          \A j \in 1..Len(policy) :
              (MutateApplicable(policy[j], rawResource, kind)
                  /\ \E i \in 1..(j - 1) : MutateFailedAt(i))
              => (ridx > j \/ (ridx = j /\ pc = "panic"))
    /\ vpc \in {"done", "panic"} =>
          \A j \in 1..Len(policy) :
              (ValidateApplicable(policy[j], patchedDocument, kind)
                  /\ \E i \in 1..(j - 1) : ValidateFailedAt(i))
              => \E e \in 1..Len(ruleInfos) : ruleInfos[e].rule = j

\* the rule the range of Mutate is at does not meet the resource description
MutateAtUnmatched ==
    /\ pc = "loop"
    /\ ridx <= Len(policy)
    /\ ~ResourceMeetsDescription(rawResource, policy[ridx].match, policy[ridx].exclude, kind)

ValidateAtUnmatched ==
    /\ vpc = "loop"
    /\ vidx <= Len(policy)
    /\ ~ResourceMeetsDescription(patchedDocument, policy[vidx].match, policy[vidx].exclude, kind)

\* C5: a rule whose resource description does not match the resource is not
\* applicable: the step of Mutate (of Validate) over it adds no patch, adds no
\* rule result (so it is neither successful nor failed), leaves the patched
\* document as it is and goes on with the range.
C5_UnmatchedNotApplicable ==
    [][ /\ MutateAtUnmatched =>
            /\ allPatches' = allPatches
            /\ ris' = ris
            /\ patchedDocument' = patchedDocument
            /\ pc' = "loop" /\ ridx' = ridx + 1
        /\ ValidateAtUnmatched =>
            /\ ruleInfos' = ruleInfos
            /\ vpc' = "loop" /\ vidx' = vidx + 1 ]_vars

\* a policy whose first rule is a mutation rule that does not match and whose
\* second rule was applied, in Mutate and then in Validate
C5_Witness ==
    /\ pc = "done"
    /\ mode = "first"
    /\ Len(policy) = 2
    /\ policy[1].mutation.set
    /\ ~ResourceMeetsDescription(rawResource, policy[1].match, policy[1].exclude, kind)
    /\ Len(ris) = 1
    /\ ris[1].rule = 2
    /\ allPatches # <<>>
    /\ vpc = "done"

\* C7: mutating the patched resource of a first invocation again with the same
\* policy produces an empty aggregated patch.
C7_ReevaluationIdempotent ==
    (mode = "patched" /\ pc = "done") => allPatches = <<>>

\* C8: a second invocation on the same policy and resource returns the same
\* aggregated patch and the same rule results as the first.
C8_Deterministic ==
    (mode = "same" /\ pc = "done") => (allPatches = first.allPatches /\ ris = first.ris)

\* C10: Mutate and Validate never abort, and Validate returns an error only
\* for a resource that does not parse.
C10_NeverAborts ==
    /\ pc # "panic"
    /\ vpc # "panic"
    /\ vpc = "error" => patchedDocument = NoDoc

(***************************************************************************)
(* The overlay of one rule, processed on a resource and its patches        *)
(* applied to the resource and then to the result                          *)
(***************************************************************************)
\* the resources an overlay is processed on
OverlayResources == {ResA, ResB, ResC}

\* the overlays of the rules, and overlays of arrays
Overlays ==
    {r.mutation.v.overlay.v : r \in {q \in Rules : q.mutation.set /\ q.mutation.v.overlay.set}}
    \cup { \* {l: ["p"]}
           JMap(Kl :> JArr(<<JS("p")>>)),
           \* {l: [{a: "x"}]}
           JMap(Kl :> JArr(<<JMap(Ka :> JS("x"))>>)),
           \* {l: [{(a): "x", b: "v"}]}
           JMap(Kl :> JArr(<<JMap((<<"(", "a", ")">> :> JS("x")) @@ (Kb :> JS("v")))>>)),
           \* {c: {a: "x"}}
           JMap(Kc :> JMap(Ka :> JS("x"))),
           \* {metadata: {labels: {b: "t"}}}
           JMap(Kmetadata :> JMap(Klabels :> JMap(Kb :> JS("t")))) }

InitOverlay ==
    /\ rawResource = NoDoc
    /\ kind = "Pod"
    /\ IdleEngine
    /\ IdleAdmission
    /\ IdleManager
    /\ IdleFunction
    /\ opc = "start"
    /\ oResource \in OverlayResources
    /\ oOverlay \in Overlays
    /\ oPatches = <<>>
    /\ oOnce = NoDoc
    /\ oTwice = NoDoc

\* ProcessOverlay on the resource: patches, or an error or a panic
OverlayProcess ==
    /\ opc = "start"
    /\ \E o \in ProcessOverlay(oOverlay, oResource) :
          /\ opc' = IF o.k = "ok" THEN "patched" ELSE "failed"
          /\ oPatches' = IF o.k = "ok" THEN o.p ELSE <<>>
    /\ UNCHANGED <<inputs, rawResource, mvars, ivars, vvars, oResource, oOverlay, oOnce, oTwice, avars, fvars, wvars, rvars, cvars>>

\* ApplyPatches of the rule's patches on the resource
OverlayApply ==
    /\ opc = "patched"
    /\ LET r == ApplyPatches(oResource, oPatches)
       IN  /\ opc' = IF r.err THEN "failed" ELSE "once"
           /\ oOnce' = r.doc
    /\ UNCHANGED <<inputs, rawResource, mvars, ivars, vvars, oResource, oOverlay, oPatches, oTwice, avars, fvars, wvars, rvars, cvars>>

\* ApplyPatches of the same patches on the patched resource
OverlayReapply ==
    /\ opc = "once"
    /\ LET r == ApplyPatches(oOnce, oPatches)
       IN  /\ opc' = "twice"
           /\ oTwice' = IF r.err THEN NoDoc ELSE r.doc
    /\ UNCHANGED <<inputs, rawResource, mvars, ivars, vvars, oResource, oOverlay, oPatches, oOnce, avars, fvars, wvars, rvars, cvars>>

NextOverlay ==
    \/ OverlayProcess
    \/ OverlayApply
    \/ OverlayReapply

SpecOverlay == InitOverlay /\ [][NextOverlay]_vars

\* C6: the patches an overlay produces for a resource are idempotent: applied
\* to the patched resource they leave it as it is.
C6_PatchIdempotent ==
    opc = "twice" => oTwice = oOnce

(***************************************************************************)
(* The admission request: HandleMutation, the patching of the resource,    *)
(* HandleValidation and the response                                       *)
(***************************************************************************)
MaxPolicies == 2

RECURSIVE MutateRun(_, _, _, _, _)
\* Mutate from rule idx on: the locals it can return with, or a panic
MutateRun(rules, idx, raw, gvkKind, st) ==
    IF idx > Len(rules) \/ st.pc = "panic" THEN {st}
    ELSE IF ~MutateApplicable(rules[idx], raw, gvkKind)
    THEN MutateRun(rules, idx + 1, raw, gvkKind, st)
    ELSE UNION { MutateRun(rules, idx + 1, raw, gvkKind, s2)
                 : s2 \in MutateRuleBody(idx, rules[idx], raw, st) }

RECURSIVE ValidateRun(_, _, _, _, _)
\* Validate from rule idx on: the rule infos it can return, or a panic
ValidateRun(rules, idx, resource, gvkKind, st) ==
    IF idx > Len(rules) \/ st.pc = "panic" THEN {st}
    ELSE IF ~ValidateApplicable(rules[idx], resource, gvkKind)
    THEN ValidateRun(rules, idx + 1, resource, gvkKind, st)
    ELSE UNION { ValidateRun(rules, idx + 1, resource, gvkKind, s2)
                 : s2 \in ValidateRuleBody(idx, rules[idx], resource, st) }

\* the engine response of the mutation rules of a policy: its patches and
\* IsSuccesful(), or a panic
MutateNew(rules, resource, gvkKind) ==
    { IF st.pc = "panic" THEN [k |-> "panic", success |-> FALSE, patches |-> <<>>]
      ELSE [k |-> "ok",
            success |-> \A i \in 1..Len(st.ris) : st.ris[i].success,
            patches |-> st.allPatches]
      : st \in MutateRun(rules, 1, resource, gvkKind,
                         [pc |-> "loop", allPatches |-> <<>>, rulePatches |-> <<>>,
                          patchedDocument |-> resource, ris |-> <<>>]) }

\* the engine response of the validation rules of a policy
ValidateNew(rules, resource, gvkKind) ==
    { IF st.pc = "panic" THEN [k |-> "panic", success |-> FALSE]
      ELSE [k |-> "ok", success |-> \A i \in 1..Len(st.ruleInfos) : st.ruleInfos[i].success]
      : st \in ValidateRun(rules, 1, resource, gvkKind, [pc |-> "loop", ruleInfos |-> <<>>]) }

\* the kinds of the resource descriptions of the rules of the policy
getApplicableKindsForPolicy(rules) ==
    UNION {rules[i].match.kinds : i \in 1..Len(rules)}

\* every engine response is successful
isResponseSuccesful_AllSuccessful(responses) == TRUE
isResponseSuccesful(responses) ==
    \A i \in 1..Len(responses) : responses[i]

\* some failed response asks for the resource to be blocked: the
\* validationFailureAction of the policies, an input of the request
toBlockResource(responses) == block

\* the resource with the patches applied; nil when there is no patch or when
\* the patch does not apply
processResourceWithPatches(patch, resource) ==
    IF patch = <<>> THEN None
    ELSE IF ApplyPatches(resource, patch).err THEN None
    ELSE Some(ApplyPatches(resource, patch).doc)

\* the rules of the policies of the policy lister
PolicyRule(name) == CHOOSE r \in Rules : r.name = name

AdmissionPolicies ==
    { <<PolicyRule("removeA")>>,
      <<PolicyRule("setAZ")>>,
      <<PolicyRule("addB"), PolicyRule("valB")>>,
      <<PolicyRule("badPatch")>>,
      <<PolicyRule("valA")>>,
      <<PolicyRule("valL")>>,
      <<PolicyRule("podOnly"), PolicyRule("valB")>> }

\* the resource as an unstructured object, or the error of the conversion
ConvertToUnstructured_NeverFails(raw) == Ok(raw)
ConvertToUnstructured(raw) == IF raw = NoDoc THEN Err ELSE Ok(raw)

\* the statistics sendStat sends: one for each gathered one, with the flag
sendStat(handler, gathered, blocked) ==
    [i \in 1..gathered |-> [handler |-> handler, blocked |-> blocked]]

\* no handler of the webhook has gathered or sent anything
IdleWebhook ==
    /\ policyStats = 0
    /\ sentStats = <<>>
    /\ events = <<>>
    /\ violations = FALSE
    /\ message = ""

InitAdmission ==
    /\ \E req \in Requests : rawResource = req.raw /\ kind = req.kind
    /\ IdleEngine
    /\ IdleOverlay
    /\ IdleFunction
    /\ IdleWebhook
    /\ IdleManager
    /\ policies \in SeqsUpTo(AdmissionPolicies, MaxPolicies)
    /\ block \in BOOLEAN
    /\ listErr \in SUBSET {"request", "mutation", "validation"}
    /\ apc = "request"
    /\ aidx = 1
    /\ patches = <<>>
    /\ engineResponses = <<>>
    /\ okMutation = FALSE
    /\ patchedResource = None
    /\ resourceRaw = None
    /\ okValidation = FALSE
    /\ response = None

\* handleAdmissionRequest, lines 166-174: the policies are listed, and the
\* request is allowed when the lister fails
ListPolicies ==
    /\ apc = "request"
    /\ IF "request" \in listErr
       THEN /\ apc' = "responded"
            /\ response' = Some([allowed |-> TRUE, patch |-> <<>>])
       ELSE /\ apc' = "mutation"
            /\ UNCHANGED response
    /\ UNCHANGED <<inputs, rawResource, mvars, ivars, vvars, ovars, policies, block, aidx,
                   patches, engineResponses, okMutation, patchedResource, resourceRaw,
                   okValidation, fvars, wvars, rvars, cvars>>

\* HandleMutation, lines 38-56: the raw resource does not convert, or the
\* policy lister fails
HandleMutationUnconverted ==
    /\ apc = "mutation"
    /\ aidx = 1 /\ engineResponses = <<>>
    /\ ConvertToUnstructured(rawResource).k = "err" \/ "mutation" \in listErr
    /\ apc' = "mutated"
    /\ okMutation' = TRUE
    /\ patches' = <<>>
    /\ message' = ""
    /\ UNCHANGED <<inputs, rawResource, mvars, ivars, vvars, ovars, policies, block, aidx,
                   engineResponses, patchedResource, resourceRaw, okValidation,
                   response, fvars, listErr, policyStats, sentStats, events, violations, rvars, cvars>>

\* HandleMutation, lines 59-86: one policy of the range, evaluated on the
\* resource of the request; its statistic is gathered
HandleMutationPolicy ==
    /\ apc = "mutation"
    /\ ConvertToUnstructured(rawResource).k = "ok" /\ "mutation" \notin listErr
    /\ aidx <= Len(policies)
    /\ IF kind \notin getApplicableKindsForPolicy(policies[aidx])
       THEN /\ aidx' = aidx + 1
            /\ UNCHANGED <<apc, patches, engineResponses, policyStats>>
       ELSE \E r \in MutateNew(policies[aidx], ConvertToUnstructured(rawResource).p, kind) :
               IF r.k = "panic"
               THEN /\ apc' = "panic"
                    /\ UNCHANGED <<aidx, patches, engineResponses, policyStats>>
               ELSE /\ engineResponses' = Append(engineResponses, r.success)
                    /\ patches' = IF r.success THEN patches \o r.patches ELSE patches
                    /\ policyStats' = policyStats + 1
                    /\ aidx' = aidx + 1
                    /\ UNCHANGED apc
    /\ UNCHANGED <<inputs, rawResource, mvars, ivars, vvars, ovars, policies, block,
                   okMutation, patchedResource, resourceRaw, okValidation, response, fvars,
                   listErr, sentStats, events, violations, message, rvars, cvars>>

\* HandleMutation, lines 88-100: the events are added, the statistics sent
HandleMutationReturn ==
    /\ apc = "mutation"
    /\ ConvertToUnstructured(rawResource).k = "ok" /\ "mutation" \notin listErr
    /\ aidx > Len(policies)
    /\ apc' = "mutated"
    /\ events' = Append(events, "mutation")
    /\ okMutation' = isResponseSuccesful(engineResponses)
    /\ patches' = IF isResponseSuccesful(engineResponses) THEN patches ELSE <<>>
    /\ message' = IF isResponseSuccesful(engineResponses) THEN "" ELSE "errorMsg"
    /\ sentStats' = sentStats \o sendStat("mutation", policyStats,
                                          ~isResponseSuccesful(engineResponses))
    /\ UNCHANGED <<inputs, rawResource, mvars, ivars, vvars, ovars, policies, block, aidx,
                   engineResponses, patchedResource, resourceRaw, okValidation, response, fvars,
                   listErr, policyStats, violations, rvars, cvars>>

\* handleAdmissionRequest, lines 193-202: mutation failed, the request is denied
DenyMutation ==
    /\ apc = "mutated"
    /\ ~okMutation
    /\ apc' = "responded"
    /\ response' = Some([allowed |-> FALSE, patch |-> <<>>])
    /\ UNCHANGED <<inputs, rawResource, mvars, ivars, vvars, ovars, policies, block, aidx,
                   patches, engineResponses, okMutation, patchedResource, resourceRaw,
                   okValidation, fvars, wvars, rvars, cvars>>

\* handleAdmissionRequest, line 205
PatchResource ==
    /\ apc = "mutated"
    /\ okMutation
    /\ apc' = "patched"
    /\ patchedResource' = processResourceWithPatches(patches, rawResource)
    /\ UNCHANGED <<inputs, rawResource, mvars, ivars, vvars, ovars, policies, block, aidx,
                   patches, engineResponses, okMutation, resourceRaw, okValidation, response, fvars, wvars, rvars, cvars>>

\* HandleValidation, lines 21-65: the resource it validates; it returns when
\* the resource does not convert or the policy lister fails
HandleValidationEntry ==
    /\ apc = "patched"
    /\ LET raw == IF patchedResource # None THEN patchedResource.v ELSE rawResource
           fails == ConvertToUnstructured(raw).k = "err" \/ "validation" \in listErr
       IN  /\ resourceRaw' = Some(raw)
           /\ apc' = IF fails THEN "validated" ELSE "validation"
           /\ okValidation' = fails
    /\ aidx' = 1
    /\ engineResponses' = <<>>
    /\ policyStats' = 0
    /\ message' = ""
    /\ UNCHANGED <<inputs, rawResource, mvars, ivars, vvars, ovars, policies, block,
                   patches, okMutation, patchedResource, response, fvars,
                   listErr, sentStats, events, violations, rvars, cvars>>

\* HandleValidation, lines 68-87: one policy of the range; its statistic is
\* gathered
HandleValidationPolicy ==
    /\ apc = "validation"
    /\ aidx <= Len(policies)
    /\ IF kind \notin getApplicableKindsForPolicy(policies[aidx])
       THEN /\ aidx' = aidx + 1
            /\ UNCHANGED <<apc, engineResponses, policyStats>>
       ELSE \E r \in ValidateNew(policies[aidx], ConvertToUnstructured(resourceRaw.v).p, kind) :
               IF r.k = "panic"
               THEN /\ apc' = "panic"
                    /\ UNCHANGED <<aidx, engineResponses, policyStats>>
               ELSE /\ engineResponses' = Append(engineResponses, r.success)
                    /\ policyStats' = policyStats + 1
                    /\ aidx' = aidx + 1
                    /\ UNCHANGED apc
    /\ UNCHANGED <<inputs, rawResource, mvars, ivars, vvars, ovars, policies, block,
                   patches, okMutation, patchedResource, resourceRaw, okValidation, response, fvars,
                   listErr, sentStats, events, violations, message, rvars, cvars>>

\* HandleValidation, lines 89-105: the events are added; the request is
\* denied when a response failed and the resource is to be blocked, and the
\* policy violations are created otherwise; the statistics are sent
HandleValidationReturn ==
    /\ apc = "validation"
    /\ aidx > Len(policies)
    /\ apc' = "validated"
    /\ events' = Append(events, "validation")
    /\ LET denied == ~isResponseSuccesful(engineResponses) /\ toBlockResource(engineResponses)
       IN  /\ okValidation' = ~denied
           /\ message' = IF denied THEN "errorMsg" ELSE ""
           /\ violations' = IF denied THEN violations ELSE TRUE
           /\ sentStats' = sentStats \o sendStat("validation", policyStats, denied)
    /\ UNCHANGED <<inputs, rawResource, mvars, ivars, vvars, ovars, policies, block, aidx,
                   patches, engineResponses, okMutation, patchedResource, resourceRaw,
                   response, fvars, listErr, policyStats, rvars, cvars>>

\* handleAdmissionRequest, lines 209-229: the response after validation
Respond ==
    /\ apc = "validated"
    /\ apc' = "responded"
    /\ response' = IF okValidation THEN Some([allowed |-> TRUE, patch |-> patches])
                   ELSE Some([allowed |-> FALSE, patch |-> <<>>])
    /\ UNCHANGED <<inputs, rawResource, mvars, ivars, vvars, ovars, policies, block, aidx,
                   patches, engineResponses, okMutation, patchedResource, resourceRaw,
                   okValidation, fvars, wvars, rvars, cvars>>

NextAdmission ==
    \/ ListPolicies
    \/ HandleMutationUnconverted
    \/ HandleMutationPolicy
    \/ HandleMutationReturn
    \/ DenyMutation
    \/ PatchResource
    \/ HandleValidationEntry
    \/ HandleValidationPolicy
    \/ HandleValidationReturn
    \/ Respond

SpecAdmission == InitAdmission /\ [][NextAdmission]_vars

\* C9: in the admission pipeline validation is handled only when mutation was
\* not denied; when mutation produced patches the resource validation is
\* handled on is the request object with these patches applied; and a request
\* is allowed only when both handlers succeeded.
C9_MutationPrecedesValidation ==
    /\ resourceRaw # None => okMutation
    /\ (resourceRaw # None /\ patches # <<>>)
           => (~ApplyPatches(rawResource, patches).err
               /\ resourceRaw.v = ApplyPatches(rawResource, patches).doc)
    /\ (response # None /\ response.v.allowed) => (okMutation /\ okValidation)

\* HandleValidation has evaluated the policies and returned
ValidationReturned ==
    /\ apc \in {"validated", "responded"}
    /\ resourceRaw # None
    /\ resourceRaw.v # NoDoc
    /\ "validation" \notin listErr

\* the statistics a handler has sent
StatsOf(handler) == SelectSeq(sentStats, LAMBDA st : st.handler = handler)

\* the handler has added its events
EventsOf(handler) == \E i \in 1..Len(events) : events[i] = handler

\* C25: HandleValidation denies the request iff some engine response is
\* unsuccessful and the resource is to be blocked; policy violations are
\* created only when the request is not denied, events are added on both
\* paths, and one statistic per evaluated policy is sent, each with the
\* blocked flag of the decision.
C25_ValidationDecision ==
    ValidationReturned =>
        /\ ~okValidation <=> ((\E i \in 1..Len(engineResponses) : ~engineResponses[i]) /\ block)
        /\ violations => okValidation
        /\ EventsOf("validation")
        /\ Len(StatsOf("validation")) = Len(engineResponses)
        /\ \A i \in 1..Len(StatsOf("validation")) :
               StatsOf("validation")[i].blocked = ~okValidation

\* a request denied by validation after two policies were evaluated
C25_Witness ==
    /\ ValidationReturned
    /\ ~okValidation
    /\ Len(engineResponses) = 2
    /\ Len(StatsOf("validation")) = 2

\* a handler returned on a resource that does not convert or a lister error
MutationFailedOpen ==
    /\ apc \in {"mutated", "patched", "validation", "validated", "responded"}
    /\ "request" \notin listErr
    /\ rawResource = NoDoc \/ "mutation" \in listErr

ValidationFailedOpen ==
    /\ apc \in {"validated", "responded"}
    /\ resourceRaw # None
    /\ resourceRaw.v = NoDoc \/ "validation" \in listErr

\* C26: when the resource does not convert or the policy lister fails,
\* HandleMutation and HandleValidation allow the request with no patch and
\* an empty message, evaluate no policy and send no statistics or events.
C26_FailOpen ==
    /\ MutationFailedOpen =>
           /\ okMutation /\ patches = <<>>
           /\ StatsOf("mutation") = <<>> /\ ~EventsOf("mutation")
           /\ apc = "mutated" => (message = "" /\ engineResponses = <<>> /\ policyStats = 0)
    /\ ValidationFailedOpen =>
           /\ okValidation
           /\ StatsOf("validation") = <<>> /\ ~EventsOf("validation")
           /\ message = "" /\ engineResponses = <<>> /\ policyStats = 0 /\ ~violations
           /\ response # None => response.v.allowed

\* validation failed open after a mutation that evaluated a policy
C26_Witness ==
    /\ ValidationFailedOpen
    /\ apc = "responded"
    /\ StatsOf("mutation") # <<>>
    /\ policies # <<>>

(***************************************************************************)
(* The functions of the engine called on their own, each on every          *)
(* argument of a set of arguments                                          *)
(***************************************************************************)
Kpa == <<"p", "a">>

\* {metadata: {name: "na", namespace: "pa", labels: {b: "t"}}}
ResM ==
    JMap(Kmetadata :> JMap((Kname :> JStr(<<"n", "a">>)) @@ (Knamespace :> JStr(Kpa))
                           @@ (Klabels :> JMap(Kb :> JS("t")))))

\* {metadata: {name: "n"}}
ResN == JMap(Kmetadata :> JMap(Kname :> JS("n")))

\* the raw resources the matcher is called with; ResC has no metadata and
\* NoDoc is the nil resource
MatcherResources == {ResM, ResN, ResC, NoDoc}

MatcherKinds == {"Deployment", "Pod"}

\* the match blocks: one or two kinds, a name with a wildcard, a namespace
\* with and without a wildcard, a selector
MatchBlocks ==
    { Desc(kinds, name, namespace, selector) :
          kinds \in {{"Deployment"}, {"Deployment", "Pod"}},
          name \in {None, Some(<<"n", "*">>), Some(<<"x">>)},
          namespace \in {None, Some(<<"p", "*">>), Some(Kpa)},
          selector \in {None, Some(Kb :> <<"t">>), Some(Kb :> <<"u">>)} }

\* the exclude blocks: no kinds, a name, a namespace without a wildcard, a
\* selector
ExcludeBlocks ==
    { Desc({}, name, namespace, selector) :
          name \in {None, Some(<<"n", "*">>), Some(<<"x">>)},
          namespace \in {None, Some(Kpa), Some(<<"q">>)},
          selector \in {None, Some(Kb :> <<"t">>), Some(Kb :> <<"u">>)} }

\* the calls of ResourceMeetsDescription
MatcherCalls ==
    { [f |-> "ResourceMeetsDescription", a |-> x] :
          x \in [resourceRaw : MatcherResources, matches : MatchBlocks,
                 exclude : ExcludeBlocks, kind : MatcherKinds] }

\* ok := ResourceMeetsDescription(resourceRaw, matches, exclude, gvk)
CallResourceMeetsDescription ==
    /\ fpc = "call"
    /\ fin.f = "ResourceMeetsDescription"
    /\ fpc' = "done"
    /\ fout' = ResourceMeetsDescription(fin.a.resourceRaw, fin.a.matches, fin.a.exclude,
                                        fin.a.kind)
    /\ UNCHANGED <<inputs, rawResource, mvars, ivars, vvars, ovars, avars, fin, wvars, rvars, cvars>>

\* the labels of the resource, none when it has no metadata
LabelsOf(doc) ==
    IF parseMetadataFromObject(doc) = NoDoc THEN EmptyMap
    ELSE parseLabelsFromMetadata(parseMetadataFromObject(doc))

\* the criteria of a match block as the claim C11 states them
CriteriaMatch(doc, desc, gvkKind) ==
    /\ gvkKind \in desc.kinds
    /\ desc.name.set => Glob(desc.name.v, ParseNameFromObject(doc))
    /\ desc.namespace.set => Glob(desc.namespace.v, ParseNamespaceFromObject(doc))
    /\ desc.selector.set => SelectorMatches(desc.selector.v, LabelsOf(doc))

\* C11: with an empty exclude block the matcher returns true iff the kind is
\* one of match.kinds, the name glob (if set) matches the name, the namespace
\* glob (if set) matches the namespace and the selector (if set) holds of the
\* labels of the resource.
C11_MatchCriteria ==
    (fpc = "done" /\ fin.f = "ResourceMeetsDescription" /\ fin.a.exclude = NoExclude)
        => (fout <=> CriteriaMatch(fin.a.resourceRaw, fin.a.matches, fin.a.kind))

\* the exclude block specifies a criterion
ExcludeSpecified(desc) == desc.name.set \/ desc.namespace.set \/ desc.selector.set

\* every criterion the exclude block specifies matches the resource
ExcludeMatches(doc, desc) ==
    /\ desc.name.set => Glob(desc.name.v, ParseNameFromObject(doc))
    /\ desc.namespace.set => Glob(desc.namespace.v, ParseNamespaceFromObject(doc))
    /\ desc.selector.set => SelectorMatches(desc.selector.v, LabelsOf(doc))

\* C12: a resource that satisfies the match block is rejected iff every
\* criterion the exclude block specifies matches it.
C12_ExcludeWins ==
    (/\ fpc = "done"
     /\ fin.f = "ResourceMeetsDescription"
     /\ ExcludeSpecified(fin.a.exclude)
     /\ ResourceMeetsDescription(fin.a.resourceRaw, fin.a.matches, NoExclude, fin.a.kind))
        => (~fout <=> ExcludeMatches(fin.a.resourceRaw, fin.a.exclude))

(***************************************************************************)
(* mutateResourceWithOverlay called on its own                             *)
(***************************************************************************)
\* overlays with anchors at the root, nodes of another type than the
\* resource's, and arrays
AnchorOverlays ==
    { \* {(a): "y", b: "z"}
      JMap((<<"(", "a", ")">> :> JS("y")) @@ (Kb :> JS("z"))),
      \* {(z): "y", b: "z"}
      JMap((<<"(", "z", ")">> :> JS("y")) @@ (Kb :> JS("z"))),
      \* {+(a): "z", +(z): "z"}
      JMap((<<"+", "(", "a", ")">> :> JS("z")) @@ (<<"+", "(", "z", ")">> :> JS("z"))),
      \* {+(c): {b: "z"}, b: "z"}
      JMap((<<"+", "(", "c", ")">> :> JMap(Kb :> JS("z"))) @@ (Kb :> JS("z"))),
      \* {+(z): {(a): "x"}}
      JMap(<<"+", "(", "z", ")">> :> JMap(<<"(", "a", ")">> :> JS("x"))),
      \* {+(l): ["z"]}
      JMap(<<"+", "(", "l", ")">> :> JArr(<<JS("z")>>)),
      \* {c: "z"}
      JMap(Kc :> JS("z")),
      \* {a: ["z"]}
      JMap(Ka :> JArr(<<JS("z")>>)),
      \* {a: 1}
      JMap(Ka :> JNum(1)),
      \* {l: []}
      JMap(Kl :> JArr(<<>>)),
      \* {l: ["q", "r"]}
      JMap(Kl :> JArr(<<JS("q"), JS("r")>>)),
      \* {l: [{(a): "x", b: "v"}, {c: "w"}]}
      JMap(Kl :> JArr(<<JMap((<<"(", "a", ")">> :> JS("x")) @@ (Kb :> JS("v"))),
                        JMap(Kc :> JS("w"))>>)),
      \* {l: [{c: "w"}, {c: "u"}]}
      JMap(Kl :> JArr(<<JMap(Kc :> JS("w")), JMap(Kc :> JS("u"))>>)),
      \* {z: {b: "x", c: {(a): "y"}}}
      JMap(Kz :> JMap((Kb :> JS("x")) @@ (Kc :> JMap(<<"(", "a", ")">> :> JS("y"))))),
      \* {z: {}}
      JMap(Kz :> JMap(EmptyMap)) }

\* the calls of mutateResourceWithOverlay
OverlayCalls ==
    { [f |-> "mutateResourceWithOverlay", a |-> x] :
          x \in [resource : OverlayResources, overlay : Overlays \cup AnchorOverlays] }

\* patches, err := mutateResourceWithOverlay(resource, overlay), or a panic
CallMutateResourceWithOverlay ==
    /\ fpc = "call"
    /\ fin.f = "mutateResourceWithOverlay"
    /\ fpc' = "done"
    /\ \E o \in mutateResourceWithOverlay(fin.a.resource, fin.a.overlay) : fout' = o
    /\ UNCHANGED <<inputs, rawResource, mvars, ivars, vvars, ovars, avars, fin, wvars, rvars, cvars>>

\* the call of mutateResourceWithOverlay has returned or panicked
OverlayDone == fpc = "done" /\ fin.f = "mutateResourceWithOverlay"

\* the operations of ops at the path of key k of the root, or below it
OpsAt(ops, k) ==
    SelectSeq(ops, LAMBDA o : \/ o.path = <<"/">> \o k
                              \/ /\ Len(o.path) > Len(k) + 1
                                 /\ SubSeq(o.path, 1, Len(k) + 2) = <<"/">> \o k \o <<"/">>)

\* C13: when a condition anchor (k) of an overlay map does not match the
\* resource value at k (or the resource has no k), the mutator returns no
\* patch operation for the object
C13_ConditionAnchorSkips ==
    (/\ OverlayDone
     /\ \E key \in DOMAIN fin.a.overlay.v :
           /\ isConditionAnchor(key)
           /\ LET k == removeAnchor(key)
              IN  \/ k \notin DOMAIN fin.a.resource.v
                  \/ ~ValidateValueWithPattern(fin.a.resource.v[k], fin.a.overlay.v[key]))
        => fout = Ok(<<>>)

\* the adding anchors of the overlay map that are its only entry for their key
AddingKeys(overlayMap) ==
    {key \in DOMAIN overlayMap :
        /\ isAddingAnchor(key)
        /\ \A other \in DOMAIN overlayMap \ {key} : removeAnchor(other) # removeAnchor(key)}

C19_TypeMismatchReplaces ==
    OverlayDone =>
        \A k \in DOMAIN fin.a.overlay.v \cap DOMAIN fin.a.resource.v :
            (removeAnchor(k) = k /\ TypeOf(fin.a.resource.v[k]) # TypeOf(fin.a.overlay.v[k]))
                => /\ fout.k # "panic"
                   /\ fout.k = "ok" =>
                          OpsAt(fout.p, k) = <<Patch("replace", <<"/">> \o k, fin.a.overlay.v[k])>>

\* C20: for an overlay array O against a resource array R (here at the one
\* key of an overlay map), an error is returned only when both are empty, and
\* when R is empty and O is not the operations are one add for each O[i], at
\* the indices 0, 1, ... of the array
C20_ArrayOverlay ==
    (/\ OverlayDone
     /\ \E k \in DOMAIN fin.a.resource.v :
           /\ DOMAIN fin.a.overlay.v = {k}
           /\ fin.a.overlay.v[k].t = "arr"
           /\ fin.a.resource.v[k].t = "arr"
           /\ Len(fin.a.overlay.v[k].v) = 0 \/ Len(fin.a.resource.v[k].v) = 0)
        => LET k == CHOOSE x \in DOMAIN fin.a.overlay.v : TRUE
               O == fin.a.overlay.v[k].v
               R == fin.a.resource.v[k].v
           IN  IF Len(O) = 0 THEN (fout.k = "err" => Len(R) = 0)
               ELSE fout = Ok([i \in 1..Len(O) |->
                                  Patch("add", <<"/">> \o k \o <<"/">> \o Itoa(i - 1), O[i])])

RECURSIVE AppendsAtEnd(_, _, _)
\* the operations ops apply one after the other to doc, and each add of an
\* element of plain into the array at /l targets the length the array has
\* when the operation is applied
AppendsAtEnd(doc, ops, plain) ==
    IF ops = <<>> THEN TRUE
    ELSE LET o == Head(ops)
             toks == PointerTokens(o.path)
         IN  /\ (o.op = "add" /\ Len(toks) = 2 /\ toks[1] = Kl /\ o.value \in plain)
                    => Atoi(toks[2]) = Len(doc.v[Kl].v)
             /\ applyPatch(doc, o) # NoDoc
             /\ AppendsAtEnd(applyPatch(doc, o), Tail(ops), plain)

\* C21: in the array-of-maps mode an overlay element without anchors, of its
\* own or nested, is appended at the end of the resource array: its add
\* targets the length of the array at the moment it is applied, so that the
\* operations returned always apply
C21_PlainElementAppended ==
    (/\ OverlayDone
     /\ fout.k = "ok"
     /\ DOMAIN fin.a.overlay.v = {Kl}
     /\ fin.a.overlay.v[Kl].t = "arr"
     /\ fin.a.resource.v[Kl].t = "arr"
     /\ Len(fin.a.resource.v[Kl].v) > 0
     /\ Len(fin.a.overlay.v[Kl].v) > 0
     /\ fin.a.overlay.v[Kl].v[1].t = "map")
        => AppendsAtEnd(fin.a.resource, fout.p,
                        {fin.a.overlay.v[Kl].v[i] : i \in {j \in 1..Len(fin.a.overlay.v[Kl].v) :
                                                           ~hasNestedAnchors(fin.a.overlay.v[Kl].v[j])}})

\* C22: the value of every operation returned is the overlay subtree without
\* its anchor-only nodes, and an overlay subtree made of anchor keys only is
\* dropped: the call returns no operation for it, and no error (here for the
\* subtree at the one key of an overlay map, a key the resource has not)
C22_AnchorOnlyDropped ==
    OverlayDone =>
        /\ fout.k = "ok" => \A i \in 1..Len(fout.p) : ~hasNestedAnchors(fout.p[i].value)
        /\ \A key \in DOMAIN fin.a.overlay.v :
              (/\ DOMAIN fin.a.overlay.v = {key}
               /\ ~isConditionAnchor(key)
               /\ removeAnchor(key) \notin DOMAIN fin.a.resource.v
               /\ hasOnlyAnchors(fin.a.overlay.v[key]))
                  => fout = Ok(<<>>)

(***************************************************************************)
(* One pass of the loop of Validate called on its own                      *)
(***************************************************************************)
\* patterns with condition anchors in maps and in arrays of maps
AnchorPatterns ==
    { \* {(a): "x", b: "*"}
      JMap((<<"(", "a", ")">> :> JS("x")) @@ (Kb :> JS("*"))),
      \* {(z): "x"}
      JMap(<<"(", "z", ")">> :> JS("x")),
      \* {(a): "y", c: "*"}
      JMap((<<"(", "a", ")">> :> JS("y")) @@ (Kc :> JS("*"))),
      \* {l: [{(a): "z", b: "*"}]}
      JMap(Kl :> JArr(<<JMap((<<"(", "a", ")">> :> JS("z")) @@ (Kb :> JS("*")))>>)),
      \* {l: [{(a): "x", a: "x"}]}
      JMap(Kl :> JArr(<<JMap((<<"(", "a", ")">> :> JS("x")) @@ (Ka :> JS("x")))>>)) }

\* the calls of the loop body of Validate, for a rule that selects the resource
ValidateCalls ==
    { [f |-> "Validate", a |-> [rule |-> ValRule("anchored", AnyKind, NoExclude, pattern),
                                resource |-> resource]] :
          pattern \in AnchorPatterns, resource \in OverlayResources }

\* the body of the loop of Validate for the rule, from no rule infos
CallValidateRule ==
    /\ fpc = "call"
    /\ fin.f = "Validate"
    /\ ValidateApplicable(fin.a.rule, fin.a.resource, "Pod")
    /\ fpc' = "done"
    /\ \E st \in ValidateRuleBody(1, fin.a.rule, fin.a.resource,
                                  [pc |-> "loop", ruleInfos |-> <<>>]) : fout' = st
    /\ UNCHANGED <<inputs, rawResource, mvars, ivars, vvars, ovars, avars, fin, wvars, rvars, cvars>>

\* a condition anchor of the pattern map has no key in the object, or its
\* pattern does not match the value of the key
ConditionMisses(object, patternMap) ==
    /\ object.t = "map"
    /\ \E key \in DOMAIN patternMap :
          /\ isConditionAnchor(key)
          /\ LET k == removeAnchor(key)
             IN  \/ k \notin DOMAIN object.v
                 \/ ~ValidateValueWithPattern(object.v[k], patternMap[key])

\* C14: a condition anchor of a validation pattern whose key is missing or
\* whose pattern does not match never gives a failed rule, in the map at the
\* root of the pattern and in the elements of an array of maps
C14_ConditionMissNeverFails ==
    (/\ fpc = "done"
     /\ fin.f = "Validate"
     /\ LET pattern == fin.a.rule.validation.v.v
            resource == fin.a.resource
        IN  \/ ConditionMisses(resource, pattern)
            \/ /\ DOMAIN pattern = {Kl}
               /\ pattern[Kl].t = "arr"
               /\ resource.v[Kl].t = "arr"
               /\ \A i \in 1..Len(resource.v[Kl].v) :
                     ConditionMisses(resource.v[Kl].v[i], pattern[Kl].v[1].v))
        => /\ fout.pc # "panic"
           /\ \A i \in 1..Len(fout.ruleInfos) : fout.ruleInfos[i].success

(***************************************************************************)
(* Rule.Validate of the policy types, called on its own.  A rule has here  *)
(* its ResourceDescription (Kinds and an optional Selector of matchLabels  *)
(* and matchExpressions) and, for each body, whether its pointer is set.   *)
(***************************************************************************)
\* (pr *ResourceDescription) Validate(): the error, "nil" for none.
\* LabelSelectorAsSelector fails on an expression with an unknown operator;
\* the selector has one requirement for each label and each expression
ResourceDescriptionValidate(pr) ==
    IF Len(pr.Kinds) = 0 THEN "The Kind is not specified"
    ELSE IF ~pr.Selector.set THEN "nil"
    ELSE IF \E i \in 1..Len(pr.Selector.v.matchExpressions) :
               pr.Selector.v.matchExpressions[i].operator
                   \notin {"In", "NotIn", "Exists", "DoesNotExist"}
         THEN "not a valid pod selector operator"
    ELSE IF Cardinality(DOMAIN pr.Selector.v.matchLabels)
                + Len(pr.Selector.v.matchExpressions) = 0
         THEN "The requirements are not specified in selector"
    ELSE "nil"

\* (r *Rule) Validate()
RuleValidate(r) ==
    IF ResourceDescriptionValidate(r.ResourceDescription) # "nil"
    THEN ResourceDescriptionValidate(r.ResourceDescription)
    ELSE IF ~r.Mutation /\ ~r.Validation /\ ~r.Generation THEN "The rule is empty"
    ELSE "nil"

\* the rules Rule.Validate is called with
RuleValidateCalls ==
    { [f |-> "Rule.Validate", a |-> x] :
          x \in [ResourceDescription :
                     [Kinds : {<<>>, <<"Pod">>},
                      Selector : {None,
                                  Some([matchLabels |-> <<>>, matchExpressions |-> <<>>]),
                                  Some([matchLabels |-> Kb :> <<"t">>, matchExpressions |-> <<>>]),
                                  Some([matchLabels |-> <<>>,
                                        matchExpressions |-> <<[key |-> Kb, operator |-> "Exists"]>>]),
                                  Some([matchLabels |-> <<>>,
                                        matchExpressions |-> <<[key |-> Kb, operator |-> "Is"]>>])}],
                  Mutation : BOOLEAN, Validation : BOOLEAN, Generation : BOOLEAN] }

\* err := rule.Validate()
CallRuleValidate ==
    /\ fpc = "call"
    /\ fin.f = "Rule.Validate"
    /\ fpc' = "done"
    /\ fout' = RuleValidate(fin.a)
    /\ UNCHANGED <<inputs, rawResource, mvars, ivars, vvars, ovars, avars, fin, wvars, rvars, cvars>>

\* C16: Rule.Validate accepts a rule only if exactly one of the bodies
\* Mutation, Validation and Generation is present: a rule with no body and a
\* rule with more than one body are rejected
C16_ExactlyOneBody ==
    (fpc = "done" /\ fin.f = "Rule.Validate" /\ fout = "nil")
        => Cardinality({b \in {"Mutation", "Validation", "Generation"} : fin.a[b]}) = 1

(***************************************************************************)
(* removeAnchor called on its own                                          *)
(***************************************************************************)
\* the keys removeAnchor is called with: a prefix, a name and a suffix
RemoveAnchorCalls ==
    { [f |-> "removeAnchor", a |-> prefix \o name \o suffix] :
          prefix \in {<<>>, <<"(">>, <<"^", "(">>, <<"=", "(">>, <<"!", "(">>, <<"+", "(">>,
                      <<"^">>, <<"+">>},
          name \in {<<>>, Ka, <<"a", "b">>},
          suffix \in {<<>>, <<")">>} }

\* noAnchorKey := removeAnchor(key)
CallRemoveAnchor ==
    /\ fpc = "call"
    /\ fin.f = "removeAnchor"
    /\ fpc' = "done"
    /\ fout' = removeAnchor(fin.a)
    /\ UNCHANGED <<inputs, rawResource, mvars, ivars, vvars, ovars, avars, fin, wvars, rvars, cvars>>

\* the wrappers of the anchors of section 4.2, without the closing parenthesis
AnchorWrappers == {<<"(">>, <<"^", "(">>, <<"=", "(">>, <<"!", "(">>, <<"+", "(">>}

\* the wrappers the key is wrapped in
WrappersOf(key) ==
    {w \in AnchorWrappers : /\ Len(key) > Len(w)
                            /\ SubSeq(key, 1, Len(w)) = w
                            /\ key[Len(key)] = ")"}

\* C17: removeAnchor strips the wrapper of a key of the form (k), ^(k), =(k),
\* !(k) or +(k) and returns k; any other key is returned unchanged
C17_RemoveAnchorStrips ==
    (fpc = "done" /\ fin.f = "removeAnchor") =>
        IF WrappersOf(fin.a) = {} THEN fout = fin.a
        ELSE \A w \in WrappersOf(fin.a) : fout = SubSeq(fin.a, Len(w) + 1, Len(fin.a) - 1)

(***************************************************************************)
(* The anchor tests called on their own                                    *)
(***************************************************************************)
\* the keys the three tests are called on
AnchorTestCalls ==
    { [f |-> "isAnchor", a |-> prefix \o name \o suffix] :
          prefix \in {<<>>, <<"(">>, <<"^", "(">>, <<"+", "(">>, <<"^">>, <<"+">>,
                      <<"(", "^", "(">>, <<"$", "(">>},
          name \in {<<>>, Ka, <<")", "(">>},
          suffix \in {<<>>, <<")">>, <<")", ")">>, <<")", "a">>} }

\* isConditionAnchor(key), isExistanceAnchor(key), isAddingAnchor(key)
CallAnchorTests ==
    /\ fpc = "call"
    /\ fin.f = "isAnchor"
    /\ fpc' = "done"
    /\ fout' = [condition |-> isConditionAnchor(fin.a),
                existance |-> isExistanceAnchor(fin.a),
                adding |-> isAddingAnchor(fin.a)]
    /\ UNCHANGED <<inputs, rawResource, mvars, ivars, vvars, ovars, avars, fin, wvars, rvars, cvars>>

\* the key starts with the text
HasPrefix(key, text) == Len(key) >= Len(text) /\ SubSeq(key, 1, Len(text)) = text

\* the key ends with the text
HasSuffix(key, text) ==
    Len(key) >= Len(text) /\ SubSeq(key, Len(key) - Len(text) + 1, Len(key)) = text

\* C30: a key is a condition anchor iff it has at least two characters,
\* starts with "(" and ends with ")"; an existence anchor iff it starts
\* with "^(" and ends with ")"; and no key passes more than one of
\* isConditionAnchor, isExistanceAnchor and isAddingAnchor.
C30_AnchorClassesExclusive ==
    (fpc = "done" /\ fin.f = "isAnchor") =>
        /\ fout.condition
               <=> (Len(fin.a) >= 2 /\ HasPrefix(fin.a, <<"(">>) /\ HasSuffix(fin.a, <<")">>))
        /\ fout.existance <=> (HasPrefix(fin.a, <<"^", "(">>) /\ HasSuffix(fin.a, <<")">>))
        /\ Cardinality({c \in {"condition", "existance", "adding"} : fout[c]}) <= 1

\* the tests have been called on an existence anchor
C30_Witness ==
    /\ fpc = "done"
    /\ fin.f = "isAnchor"
    /\ fout.existance
    /\ ~fout.condition
    /\ ~fout.adding

(***************************************************************************)
(* actualizePattern called on its own                                      *)
(***************************************************************************)
\* the original patterns, the references and the paths of the referring
\* element that actualizePattern is called with
ReferenceCalls ==
    { [f |-> "actualizePattern", a |-> x] :
          x \in [origPattern :
                     { \* {a: "x", b: 3}
                       JMap((Ka :> JS("x")) @@ (Kb :> JNum(3))),
                       \* {a: "x", c: {a: "y", b: "z"}}
                       JMap((Ka :> JS("x")) @@ (Kc :> JMap((Ka :> JS("y")) @@ (Kb :> JS("z"))))),
                       \* {l: [{a: "x"}, {a: "y"}]}
                       JMap(Kl :> JArr(<<JMap(Ka :> JS("x")), JMap(Ka :> JS("y"))>>)),
                       \* {c: {b: "z"}}
                       JMap(Kc :> JMap(Kb :> JS("z"))) },
                  referencePattern :
                     { <<"$", "(", "/", "a", ")">>, <<"$", "(", "/", "b", ")">>,
                       <<"$", "(", "/", "z", ")">>,
                       <<"$", "(", "/", "c", "/", "b", ")">>,
                       <<"$", "(", "/", "c", "/", "z", ")">>,
                       <<"$", "(", "/", "l", "/", "0", "/", "a", ")">>,
                       <<"$", "(", "/", "l", "/", "1", "/", "a", ")">>,
                       <<"$", "(", "/", "l", "/", "0", ")">>,
                       <<"$", "(", ".", ".", "/", "a", ")">>,
                       <<"$", "(", ">", "/", "b", ")">>,
                       <<"$", "(", ")">> },
                  absolutePath : {<<"/", "b", "/">>, <<"/", "c", "/", "b", "/">>}] }

\* patternElement, err = actualizePattern(originPattern, reference, path), or a panic
CallActualizePattern ==
    /\ fpc = "call"
    /\ fin.f = "actualizePattern"
    /\ fpc' = "done"
    /\ \E o \in actualizePattern(fin.a.origPattern, fin.a.referencePattern,
                                 fin.a.absolutePath) : fout' = o
    /\ UNCHANGED <<inputs, rawResource, mvars, ivars, vvars, ovars, avars, fin, wvars, rvars, cvars>>

\* the path of the reference without "$(" and ")", for a reference without
\* an operator; relative references are resolved as section 4.3 has it
ReferencePath(call) ==
    FormAbsolutePath(SubSeq(call.referencePattern, 3, Len(call.referencePattern) - 1),
                     call.absolutePath)

RECURSIVE PatternAt(_, _)
\* the value the pattern tree assigns at the path of the segments keys: a
\* map is entered by the field of that name, an array by the index whose
\* numeric string the segment is; NoDoc when a segment is unknown
PatternAt(node, keys) ==
    IF keys = <<>> THEN node
    ELSE IF node.t = "map"
    THEN IF \E key \in DOMAIN node.v : getRawKeyIfWrappedWithAttributes(key) = Head(keys)
         THEN PatternAt(node.v[CHOOSE key \in DOMAIN node.v :
                                   getRawKeyIfWrappedWithAttributes(key) = Head(keys)],
                        Tail(keys))
         ELSE NoDoc
    ELSE IF node.t = "arr"
    THEN IF Atoi(Head(keys)) >= 0 /\ Atoi(Head(keys)) < Len(node.v)
         THEN PatternAt(node.v[Atoi(Head(keys)) + 1], Tail(keys))
         ELSE NoDoc
    ELSE NoDoc

\* the call is over, its reference has a path and no operator
ReferenceDone ==
    /\ fpc = "done"
    /\ fin.f = "actualizePattern"
    /\ Len(fin.a.referencePattern) > 3
    /\ getOperatorFromStringPattern(SubSeq(fin.a.referencePattern, 3,
                                           Len(fin.a.referencePattern))) = <<>>

\* C23: a reference to a path that exists in the original pattern tree
\* resolves to the value the pattern assigns at that path: also through array
\* indices other than 0, for a path that ends at an array index, and whatever
\* the sibling keys and the order in which the keys of a map are visited
C23_ReferenceResolves ==
    (/\ ReferenceDone
     /\ PatternAt(fin.a.origPattern, Split(Tail(ReferencePath(fin.a)), "/")) # NoDoc)
        => fout = Ok(PatternAt(fin.a.origPattern, Split(Tail(ReferencePath(fin.a)), "/")))

\* C24: resolving a reference whose path has an unknown segment gives an
\* error that carries the full path of the reference, its segments in their
\* order: actualizePattern returns an error and never a value
C24_UnknownSegmentIsError ==
    (/\ ReferenceDone
     /\ PatternAt(fin.a.origPattern, Split(Tail(ReferencePath(fin.a)), "/")) = NoDoc)
        => /\ fout.k = "err"
           /\ fout.p.path = ReferencePath(fin.a)

(***************************************************************************)
(* The specification of the calls                                          *)
(***************************************************************************)
InitCalls ==
    /\ rawResource = NoDoc
    /\ kind = "Pod"
    /\ IdleEngine
    /\ IdleOverlay
    /\ IdleAdmission
    /\ IdleManager
    /\ fpc = "call"
    /\ fin \in MatcherCalls \cup OverlayCalls \cup ValidateCalls \cup RuleValidateCalls
                 \cup RemoveAnchorCalls \cup ReferenceCalls \cup AnchorTestCalls
    /\ fout = <<>>

NextCalls ==
    \/ CallResourceMeetsDescription
    \/ CallMutateResourceWithOverlay
    \/ CallValidateRule
    \/ CallRuleValidate
    \/ CallRemoveAnchor
    \/ CallActualizePattern
    \/ CallAnchorTests

SpecCalls == InitCalls /\ [][NextCalls]_vars

(***************************************************************************)
(* The ResourceManager of the policy controller: the cache of the          *)
(* (policy, resource) versions a policy has been applied to                *)
(***************************************************************************)
\* the most calls made on one ResourceManager
MaxCalls == 4

\* the latest time of the clock
MaxClock == 3

\* the rebuild times a ResourceManager is built with, in seconds
RebuildTimes == {1, 2}

\* policy + "/" + pv + "/" + kind + "/" + ns + "/" + name + "/" + rv
buildKey(policyName, pv, kindName, ns, name, rv) ==
    policyName \o <<"/">> \o pv \o <<"/">> \o kindName \o <<"/">> \o ns \o <<"/">>
        \o name \o <<"/">> \o rv

\* NewResourceManager: an empty cache, built now
NewResourceManager(rebuildTime, t) ==
    [data |-> {}, time |-> t, rebuildTime |-> rebuildTime]

\* Drop: the manager after the call at time t
Drop_AtRebuildTime(m, t) ==
    IF t - m.time >= m.rebuildTime THEN [m EXCEPT !.data = {}, !.time = t] ELSE m
Drop(m, t) ==
    IF t - m.time > m.rebuildTime THEN [m EXCEPT !.data = {}, !.time = t] ELSE m

\* RegisterResource: the manager after the call
RegisterResource(m, key) == [m EXCEPT !.data = m.data \cup {key}]

\* ProcessResource: what the call returns
ProcessResource(m, key) == key \notin m.data

\* the (policy, policy version, kind, namespace, name, resource version) of
\* the calls
ResourceVersions ==
    { <<policyName, <<"1">>, <<"P", "o", "d">>, <<"d">>, name, rv>> :
        policyName \in {<<"p">>}, name \in {<<"a">>}, rv \in {<<"1">>, <<"2">>} }

KeyOf(r) == buildKey(r[1], r[2], r[3], r[4], r[5], r[6])

\* a call and what it left: the time of the call, the cache and its time
\* stamp after it, and what ProcessResource returned
Called(op, r, m, ret) ==
    [op |-> op, r |-> r, at |-> now, data |-> m.data, time |-> m.time, ret |-> ret]

InitManager ==
    /\ rawResource = NoDoc
    /\ kind = "Pod"
    /\ IdleEngine
    /\ IdleOverlay
    /\ IdleAdmission
    /\ IdleFunction
    /\ \E rebuildTime \in RebuildTimes : rm = NewResourceManager(rebuildTime, 0)
    /\ cd = [cmName |-> <<>>, filters |-> <<>>, panicked |-> FALSE]
    /\ cmHist = <<>>
    /\ now = 0
    /\ hist = <<>>
    /\ mux = 0
    /\ workers = <<>>
    /\ applied = <<>>
    /\ drops = 0

\* a second passes
Tick ==
    /\ now < MaxClock
    /\ now' = now + 1
    /\ UNCHANGED <<inputs, rawResource, mvars, ivars, vvars, ovars, avars, fvars, wvars,
                   rm, hist, mux, workers, applied, drops, cvars>>

CallDrop ==
    /\ Len(hist) < MaxCalls
    /\ rm' = Drop(rm, now)
    /\ hist' = Append(hist, Called("Drop", <<>>, rm', FALSE))
    /\ drops' = IF rm'.time # rm.time \/ (rm.data # {} /\ rm'.data = {}) THEN drops + 1 ELSE drops
    /\ UNCHANGED <<inputs, rawResource, mvars, ivars, vvars, ovars, avars, fvars, wvars,
                   now, mux, workers, applied, cvars>>

CallRegisterResource ==
    /\ Len(hist) < MaxCalls
    /\ \E r \in ResourceVersions :
           /\ rm' = RegisterResource(rm, KeyOf(r))
           /\ hist' = Append(hist, Called("RegisterResource", r, rm', FALSE))
    /\ UNCHANGED <<inputs, rawResource, mvars, ivars, vvars, ovars, avars, fvars, wvars,
                   now, mux, workers, applied, drops, cvars>>

CallProcessResource ==
    /\ Len(hist) < MaxCalls
    /\ \E r \in ResourceVersions :
           hist' = Append(hist, Called("ProcessResource", r, rm, ProcessResource(rm, KeyOf(r))))
    /\ UNCHANGED <<inputs, rawResource, mvars, ivars, vvars, ovars, avars, fvars, wvars,
                   rm, now, mux, workers, applied, drops, cvars>>

NextManager ==
    \/ Tick
    \/ CallDrop
    \/ CallRegisterResource
    \/ CallProcessResource

SpecManager == InitManager /\ [][NextManager]_vars

RECURSIVE ResetBefore(_, _)
\* the time of the last reset of the cache before call i: the time it was
\* built, or the time of the last Drop made more than rebuildTime seconds
\* after the reset before it
ResetBefore(h, i) ==
    IF i = 1 THEN 0
    ELSE IF h[i - 1].op = "Drop" /\ h[i - 1].at - ResetBefore(h, i - 1) > rm.rebuildTime
         THEN h[i - 1].at
         ELSE ResetBefore(h, i - 1)

\* call i is a Drop made more than rebuildTime seconds after the last reset
Empties(h, i) == h[i].op = "Drop" /\ h[i].at - ResetBefore(h, i) > rm.rebuildTime

\* the keys registered before call i and since the cache was last emptied
RegisteredBefore(h, i) ==
    { KeyOf(h[j].r) : j \in { j \in 1..(i - 1) :
                         /\ h[j].op = "RegisterResource"
                         /\ \A k \in (j + 1)..(i - 1) : ~Empties(h, k) } }

Invocations == {1, 2}

\* the policies the controller processes
ManagedPolicies == {<<"p">>, <<"q">>}

\* listResources: the resources that satisfy the rules of the policy
listResources(policyName) ==
    { <<policyName, <<"1">>, <<"P", "o", "d">>, <<"d">>, name, <<"1">>>> :
        name \in {<<"a">>, <<"b">>} }

IdleInvocation == [pc |-> "idle", policy |-> <<>>, todo |-> {}, cur |-> <<>>]

InitExisting ==
    /\ rawResource = NoDoc
    /\ kind = "Pod"
    /\ IdleEngine
    /\ IdleOverlay
    /\ IdleAdmission
    /\ IdleFunction
    /\ \E rebuildTime \in RebuildTimes : rm = NewResourceManager(rebuildTime, 0)
    /\ cd = [cmName |-> <<>>, filters |-> <<>>, panicked |-> FALSE]
    /\ cmHist = <<>>
    /\ now = 0
    /\ hist = <<>>
    /\ mux = 0
    /\ workers = [w \in Invocations |-> IdleInvocation]
    /\ applied = <<>>
    /\ drops = 0

\* processExistingResources, line 152, and Drop, lines 350-353: the time
\* stamp is read without the lock
DropRead(w) ==
    /\ workers[w].pc = "idle"
    /\ \E policyName \in ManagedPolicies :
           workers' = [workers EXCEPT ![w] =
               [pc |-> IF now - rm.time > rm.rebuildTime THEN "lock" ELSE "list",
                policy |-> policyName, todo |-> {}, cur |-> <<>>]]
    /\ UNCHANGED <<inputs, rawResource, mvars, ivars, vvars, ovars, avars, fvars, wvars,
                   rm, now, hist, mux, applied, drops, cvars>>

\* Drop, lines 354-356: the lock is taken and the cache emptied
DropEmpty(w) ==
    /\ workers[w].pc = "lock"
    /\ mux = 0
    /\ mux' = w
    /\ rm' = [rm EXCEPT !.data = {}]
    /\ drops' = drops + 1
    /\ workers' = [workers EXCEPT ![w].pc = "stamp"]
    /\ UNCHANGED <<inputs, rawResource, mvars, ivars, vvars, ovars, avars, fvars, wvars,
                   now, hist, applied, cvars>>

\* Drop, lines 357-360: the time stamp is reset and the lock released
DropStamp(w) ==
    /\ workers[w].pc = "stamp"
    /\ mux' = 0
    /\ rm' = [rm EXCEPT !.time = now]
    /\ workers' = [workers EXCEPT ![w].pc = "list"]
    /\ UNCHANGED <<inputs, rawResource, mvars, ivars, vvars, ovars, avars, fvars, wvars,
                   now, hist, applied, drops, cvars>>

\* processExistingResources, line 155
ListResources(w) ==
    /\ workers[w].pc = "list"
    /\ workers' = [workers EXCEPT ![w].pc = "range", ![w].todo = listResources(workers[w].policy)]
    /\ UNCHANGED <<inputs, rawResource, mvars, ivars, vvars, ovars, avars, fvars, wvars,
                   rm, now, hist, mux, applied, drops, cvars>>

\* processExistingResources, lines 156-161: the next resource of the range
\* over the map, and the check under the read lock
CheckResource(w) ==
    /\ workers[w].pc = "range"
    /\ workers[w].todo # {}
    /\ mux = 0
    /\ \E r \in workers[w].todo :
           workers' = [workers EXCEPT ![w] =
               IF ProcessResource(rm, KeyOf(r))
               THEN [@ EXCEPT !.pc = "apply", !.cur = r]
               ELSE [@ EXCEPT !.todo = @ \ {r}]]
    /\ UNCHANGED <<inputs, rawResource, mvars, ivars, vvars, ovars, avars, fvars, wvars,
                   rm, now, hist, mux, applied, drops, cvars>>

\* processExistingResources, line 164
ApplyPolicyOnResource(w) ==
    /\ workers[w].pc = "apply"
    /\ applied' = Append(applied, [r |-> workers[w].cur, drops |-> drops])
    /\ workers' = [workers EXCEPT ![w].pc = "register"]
    /\ UNCHANGED <<inputs, rawResource, mvars, ivars, vvars, ovars, avars, fvars, wvars,
                   rm, now, hist, mux, drops, cvars>>

\* processExistingResources, line 166: the resource is registered under the
\* lock
RegisterProcessed(w) ==
    /\ workers[w].pc = "register"
    /\ mux = 0
    /\ rm' = RegisterResource(rm, KeyOf(workers[w].cur))
    /\ workers' = [workers EXCEPT ![w].pc = "range", ![w].todo = @ \ {workers[w].cur},
                                  ![w].cur = <<>>]
    /\ UNCHANGED <<inputs, rawResource, mvars, ivars, vvars, ovars, avars, fvars, wvars,
                   now, hist, mux, applied, drops, cvars>>

\* processExistingResources, line 168: the range is over
ReturnExisting(w) ==
    /\ workers[w].pc = "range"
    /\ workers[w].todo = {}
    /\ workers' = [workers EXCEPT ![w].pc = "done"]
    /\ UNCHANGED <<inputs, rawResource, mvars, ivars, vvars, ovars, avars, fvars, wvars,
                   rm, now, hist, mux, applied, drops, cvars>>

NextExisting ==
    \/ Tick
    \/ \E w \in Invocations :
           \/ DropRead(w)
           \/ DropEmpty(w)
           \/ DropStamp(w)
           \/ ListResources(w)
           \/ CheckResource(w)
           \/ ApplyPolicyOnResource(w)
           \/ RegisterProcessed(w)
           \/ ReturnExisting(w)

SpecExisting == InitExisting /\ [][NextExisting]_vars

\* C28: between two drops of the cache a policy is applied to a (policy
\* name, policy version, kind, namespace, name, resource version) at most
\* once, also when invocations of processExistingResources interleave.
C28_AppliedOncePerDrop ==
    \A i, j \in 1..Len(applied) :
        (i < j /\ applied[i].r = applied[j].r) => applied[i].drops # applied[j].drops

(***************************************************************************)
(* ConfigData: the resource filters loaded from the ConfigMap named in     *)
(* INIT_CONFIG, kept up to date by the handlers of the ConfigMap informer  *)
(***************************************************************************)
\* the most events and ToFilter calls one ConfigData sees
MaxEvents == 3

RECURSIVE FindAllString(_, _)
\* re.FindAllString(list, -1) for \[([^\[\]]*)\], from position i on: the
\* texts between a '[' and the next ']' with no bracket in between
FindAllString(list, i) ==
    IF i > Len(list) THEN <<>>
    ELSE IF list[i] # "[" THEN FindAllString(list, i + 1)
    ELSE LET brackets == { j \in (i + 1)..Len(list) : list[j] \in {"[", "]"} }
             j == CHOOSE j \in brackets : \A k \in brackets : j <= k
         IN  IF brackets = {} THEN <<>>
             ELSE IF list[j] = "]"
                  THEN <<SubSeq(list, i + 1, j - 1)>> \o FindAllString(list, j + 1)
                  ELSE FindAllString(list, j)

k8Resource(kindName, namespace, name) ==
    [Kind |-> kindName, Namespace |-> namespace, Name |-> name]

RECURSIVE ParseElements(_, _)
\* parseKinds, lines 296-314: the variable resource keeps its value when an
\* element has more than three parts
ParseElements(submatchall, resource) ==
    IF submatchall = <<>> THEN <<>>
    ELSE LET elements == Split(Head(submatchall), ",")
             next == IF Len(elements) = 3
                     THEN k8Resource(elements[1], elements[2], elements[3])
                     ELSE IF Len(elements) = 2 THEN k8Resource(elements[1], elements[2], <<>>)
                     ELSE IF Len(elements) = 1 THEN k8Resource(elements[1], <<>>, <<>>)
                     ELSE resource
         IN  <<next>> \o ParseElements(Tail(submatchall), next)

parseKinds(list) == ParseElements(FindAllString(list, 1), k8Resource(<<>>, <<>>, <<>>))

\* ToFilter, lines 161-166
ToFilter(filters, kindName, namespace, name) ==
    \E i \in 1..Len(filters) :
        /\ Glob(filters[i].Kind, kindName)
        /\ Glob(filters[i].Namespace, namespace)
        /\ Glob(filters[i].Name, name)

\* load, lines 242-272: the filters after the call
load(filters, cm) ==
    IF cm.data = "nil" \/ cm.data = "nokey" THEN filters
    ELSE IF cm.value = <<>> THEN filters
    ELSE IF parseKinds(cm.value) = filters THEN filters
    ELSE parseKinds(cm.value)

\* the name of INIT_CONFIG and another name
CmName == <<"c">>
OtherName == <<"o">>

\* "[P,d,a]" and "x[N,*,*][P,d]"
FiltersPda == <<"[", "P", ",", "d", ",", "a", "]">>
FiltersNP == <<"x", "[", "N", ",", "*", ",", "*", "]", "[", "P", ",", "d", "]">>

\* the ConfigMaps of the events: without data, without the key
\* resourceFilters, with an empty value and with a value
ConfigMaps ==
    { [name |-> name, data |-> d.data, value |-> d.value] :
        name \in {CmName, OtherName},
        d \in { [data |-> "nil", value |-> <<>>], [data |-> "nokey", value |-> <<>>],
                [data |-> "value", value |-> <<>>], [data |-> "value", value |-> FiltersPda],
                [data |-> "value", value |-> FiltersNP] } }

\* what the informer hands to deleteCM: the ConfigMap, a tombstone
\* (cache.DeletedFinalStateUnknown) that holds it, a tombstone that holds
\* something else, or something else
DeletedObjects ==
    { [t |-> t, name |-> name] : t \in {"cm", "tombstone"}, name \in {CmName, OtherName} }
        \cup { [t |-> t, name |-> <<>>] : t \in {"tombstoneOther", "other"} }

\* the resources ToFilter is asked about
FilterQueries == { <<<<"P">>, <<"d">>, <<"a">>>>, <<<<"N">>, <<>>, <<"n">>>>, <<<<"P">>, <<"e">>, <<"a">>>> }

InitConfig ==
    /\ rawResource = NoDoc
    /\ kind = "Pod"
    /\ IdleEngine
    /\ IdleOverlay
    /\ IdleAdmission
    /\ IdleFunction
    /\ rm = [data |-> {}, time |-> 0, rebuildTime |-> 0]
    /\ now = 0
    /\ hist = <<>>
    /\ mux = 0
    /\ workers = <<>>
    /\ applied = <<>>
    /\ drops = 0
    /\ cd = [cmName |-> CmName, filters |-> <<>>, panicked |-> FALSE]
    /\ cmHist = <<>>

\* an event or a call and the filters it left
Handled(op, obj, ret) ==
    [op |-> op, obj |-> obj, ret |-> ret, filters |-> cd'.filters]

\* addCM, lines 202-209
addCM ==
    /\ ~cd.panicked
    /\ Len(cmHist) < MaxEvents
    /\ \E cm \in ConfigMaps :
           /\ cd' = IF cm.name # cd.cmName THEN cd
                    ELSE [cd EXCEPT !.filters = load(cd.filters, cm)]
           /\ cmHist' = Append(cmHist, Handled("add", cm, FALSE))
    /\ UNCHANGED <<inputs, rawResource, mvars, ivars, vvars, ovars, avars, fvars, wvars, rvars>>

\* updateCM, lines 211-218
updateCM ==
    /\ ~cd.panicked
    /\ Len(cmHist) < MaxEvents
    /\ \E old \in {CHOOSE c \in ConfigMaps : TRUE}, cur \in ConfigMaps :
           /\ cd' = IF cur.name # cd.cmName THEN cd
                    ELSE [cd EXCEPT !.filters = load(cd.filters, cur)]
           /\ cmHist' = Append(cmHist, Handled("update", cur, FALSE))
    /\ UNCHANGED <<inputs, rawResource, mvars, ivars, vvars, ovars, avars, fvars, wvars, rvars>>

\* deleteCM, lines 220-240, and unload, lines 274-281: for a tombstone the
\* type assertion of line 221 leaves cm nil, the ConfigMap of the tombstone
\* is dropped at line 228, and line 235 dereferences the nil cm
deleteCM ==
    /\ ~cd.panicked
    /\ Len(cmHist) < MaxEvents
    /\ \E obj \in DeletedObjects :
           /\ cd' = IF obj.t \in {"other", "tombstoneOther"} THEN cd
                    ELSE IF obj.t = "tombstone" THEN [cd EXCEPT !.panicked = TRUE]
                    ELSE IF obj.name # cd.cmName THEN cd
                    ELSE [cd EXCEPT !.filters = <<>>]
           /\ cmHist' = Append(cmHist, Handled("delete", obj, FALSE))
    /\ UNCHANGED <<inputs, rawResource, mvars, ivars, vvars, ovars, avars, fvars, wvars, rvars>>

\* a call of ToFilter
CallToFilter ==
    /\ ~cd.panicked
    /\ Len(cmHist) < MaxEvents
    /\ cd' = cd
    /\ \E q \in FilterQueries :
           cmHist' = Append(cmHist, Handled("ToFilter", q, ToFilter(cd.filters, q[1], q[2], q[3])))
    /\ UNCHANGED <<inputs, rawResource, mvars, ivars, vvars, ovars, avars, fvars, wvars, rvars>>

NextConfig == addCM \/ updateCM \/ deleteCM \/ CallToFilter

SpecConfig == InitConfig /\ [][NextConfig]_vars

\* event i loads a non-empty resourceFilters value of the configured ConfigMap
Loads(h, i) ==
    /\ h[i].op \in {"add", "update"}
    /\ h[i].obj.name = CmName
    /\ h[i].obj.data = "value"
    /\ h[i].obj.value # <<>>

\* event i is a delete of the configured ConfigMap
Deletes(h, i) ==
    /\ h[i].op = "delete"
    /\ h[i].obj.t \in {"cm", "tombstone"}
    /\ h[i].obj.name = CmName

RECURSIVE FiltersAfter(_, _)
\* the filters after the first i events: the parse of the most recent value
\* loaded since the last delete of the configured ConfigMap
FiltersAfter(h, i) ==
    IF i = 0 THEN <<>>
    ELSE IF Deletes(h, i) THEN <<>>
    ELSE IF Loads(h, i) THEN parseKinds(h[i].obj.value)
    ELSE FiltersAfter(h, i - 1)

\* C29: the filter list is the parse of the most recent non-empty
\* resourceFilters value loaded since the last delete of the configured
\* ConfigMap and is empty after such a delete; other events leave it
\* unchanged; ToFilter returns true iff some current filter matches.
C29_FiltersFollowEvents ==
    \A i \in 1..Len(cmHist) :
        /\ cmHist[i].filters = FiltersAfter(cmHist, i)
        /\ cmHist[i].op = "ToFilter"
               => (cmHist[i].ret <=>
                       \E k \in 1..Len(cmHist[i].filters) :
                           LET f == cmHist[i].filters[k]
                           IN  /\ Glob(f.Kind, cmHist[i].obj[1])
                               /\ Glob(f.Namespace, cmHist[i].obj[2])
                               /\ Glob(f.Name, cmHist[i].obj[3]))

=============================================================================
